---- MODULE Spec2Model ----
(***************************************************************************)
(* go-multitenant: schema-per-tenant routing over one shared connection    *)
(* pool.  The model holds the PostgreSQL state the router touches (the     *)
(* catalog of namespaces, the rows of the tenant tables, the session and   *)
(* transaction state of every pooled physical connection), the tenant      *)
(* registry, and the position of every goroutine inside the manager call   *)
(* it is running.  Every SQL statement and every pool operation is one     *)
(* atomic step; goroutines interleave between them.                        *)
(***************************************************************************)
EXTENDS Integers, Sequences, FiniteSets, TLC

VARIABLES
    conn,      \* per pooled physical connection: owner, session and tx state
    schemas,   \* namespaces that exist in the catalog (committed)
    objs,      \* <<namespace, object>> pairs that exist (committed)
    rows,      \* <<namespace, tag>>: committed rows of the projects tables
    status,    \* tenants table: tenant id -> lifecycle status
    wk,        \* per goroutine: the call it runs and where it is in it
    nops,      \* number of calls started so far
    aborted,   \* ids of the WithTenantTx calls that returned an error
    pg,        \* what the database provides to the migration functions
    ledger,    \* rows of public.tenant_migrations (committed)
    applied,   \* committed executions of migration bodies
    connections \* the manager's map of tenant-specific handles: <<tenant, handle>>

vars == <<conn, schemas, objs, rows, status, wk, nops, aborted, pg, ledger, applied,
          connections>>

migVars == <<pg, ledger, applied>>

\* The manager as NewManager builds it: connections is make(map[uuid.UUID]*sql.DB).
NewManager == [connections |-> {}]

----------------------------------------------------------------------------
(* Bounds and finite domains *)

MaxOps == 2

Workers == {"w1", "w2"}
Conns == {"c1", "c2"}
TenantIDs == {<<"a", "-", "1">>, <<"b", "-", "2">>}
FnErrs == {<<"intentional rollback error">>}

None == "none"
\* Absent values of the tuple-valued fields: no path, no tenant, no namespace,
\* no error.
NoPath == <<>>
NoTenant == <<>>
NoNs == <<>>
Nil == <<>>
\* The NULL stored as rollback SQL when a migration has none.
NullSQL == [cmd |-> "NULL", obj |-> "none"]

----------------------------------------------------------------------------
(* Schema naming and identifier quoting *)

schemaPrefix == <<"tenant_">>

ReplaceAll(s, old, new) == [i \in 1..Len(s) |-> IF s[i] = old THEN new ELSE s[i]]

\* Faulty variant: the name is built from the first group of the ID only.
GetSchemaName_Short(tenantID) ==
    LET s == ReplaceAll(tenantID, "-", "_")
    IN  schemaPrefix \o SubSeq(s, 1, IF Len(s) < 8 THEN Len(s) ELSE 8)

\* fmt.Sprintf("%s%s", sm.schemaPrefix, strings.ReplaceAll(tenantID.String(), "-", "_")),
\* given the ID in its String() form.
GetSchemaName(tenantID) == schemaPrefix \o ReplaceAll(tenantID, "-", "_")

QuoteIdent(name) == <<"\"">> \o name \o <<"\"">>

quotedSchemaName(tenantID) == QuoteIdent(GetSchemaName(tenantID))

Public == <<"public">>

\* The server reads a delimited identifier back as the name between the quotes.
ParseIdent(tok) ==
    IF Len(tok) >= 2 /\ tok[1] = "\"" /\ tok[Len(tok)] = "\""
    THEN SubSeq(tok, 2, Len(tok) - 1)
    ELSE tok

\* "SET [LOCAL] search_path TO <quoted>, public" as the statement text built
\* by fmt.Sprintf: the command, its LOCAL flag and the identifier list.
SetPathQuery(quoted, isLocal) ==
    [cmd |-> "SET", isLocal |-> isLocal, idents |-> <<quoted, Public>>]

ParsePath(q) == [i \in 1..Len(q.idents) |-> ParseIdent(q.idents[i])]

TenantPath(tenantID) == <<GetSchemaName(tenantID), Public>>

\* A fresh session resolves unqualified names against public only.
DefaultPath == <<Public>>

Namespaces == {Public} \cup {GetSchemaName(t) : t \in TenantIDs}

TenantTables == {"projects", "tasks", "documents", "tenant_users"}
TenantIndexes == {"indexes"}
TenantFunctions == {"update_updated_at_column"}
TenantTriggers == {"triggers"}
TenantObjects == TenantTables \cup TenantIndexes \cup TenantFunctions \cup TenantTriggers

----------------------------------------------------------------------------
(* The migration ledger and what the database provides to the plpgsql
   migration functions *)

Versions == {"001", "002"}

\* Columns of public.tenant_migrations as CreateMasterTables creates it.
MasterLedgerColumns ==
    {"id", "tenant_id", "version", "name", "applied_at", "rollback_sql", "checksum"}

\* Columns of public.tenant_migrations that the migration functions read and
\* write.  CREATE TABLE IF NOT EXISTS keeps a table of that form if the
\* database already holds one.
FunctionLedgerColumns ==
    {"id", "tenant_id", "migration_version", "migration_name", "rollback_sql",
     "checksum", "applied_at"}

\* plpgsql.variable_conflict: what a name means that is both a variable of
\* the function and a column of the queried table.
VariableConflicts == {"error", "use_variable", "use_column"}

\* A database the functions are installed in: its setting of
\* plpgsql.variable_conflict, the form of its ledger table and whether the
\* pgcrypto extension (digest) is installed.
PgEnvs ==
    [conflict : VariableConflicts,
     ledgerColumns : {MasterLedgerColumns, FunctionLedgerColumns},
     pgcrypto : BOOLEAN]

\* A stock server holding what CreateMasterTables creates.
StockPg ==
    [conflict |-> "error", ledgerColumns |-> MasterLedgerColumns, pgcrypto |-> FALSE]

NoMigrations ==
    /\ pg = StockPg
    /\ ledger = {}
    /\ applied = {}

----------------------------------------------------------------------------
(* PostgreSQL session and transaction semantics on one physical connection *)

FreshConn ==
    [owner |-> None, session |-> DefaultPath, setBy |-> None,
     inTx |-> FALSE, txLocal |-> NoPath, saved |-> DefaultPath, savedBy |-> None,
     pendRows |-> {}, pendSchemas |-> {}, pendObjs |-> {}, locks |-> {}]

\* The namespace order in force for the next statement on the connection.
EffPath(cr) == IF cr.txLocal # NoPath THEN cr.txLocal ELSE cr.session

PgBegin(cr) ==
    [cr EXCEPT !.inTx = TRUE, !.saved = cr.session, !.savedBy = cr.setBy]

\* SET LOCAL lasts to the end of the transaction (and does nothing outside
\* one); plain SET changes the session, and is undone if the surrounding
\* transaction rolls back.
PgSetPath(cr, q, by) ==
    IF q.isLocal
    THEN IF cr.inTx THEN [cr EXCEPT !.txLocal = ParsePath(q)] ELSE cr
    ELSE [cr EXCEPT !.session = ParsePath(q), !.setBy = by, !.txLocal = NoPath]

PgRollback(cr) ==
    [cr EXCEPT !.inTx = FALSE, !.txLocal = NoPath,
               !.session = IF cr.inTx THEN cr.saved ELSE cr.session,
               !.setBy = IF cr.inTx THEN cr.savedBy ELSE cr.setBy,
               !.pendRows = {}, !.pendSchemas = {}, !.pendObjs = {}, !.locks = {}]

PgCommit(cr) ==
    [cr EXCEPT !.inTx = FALSE, !.txLocal = NoPath,
               !.pendRows = {}, !.pendSchemas = {}, !.pendObjs = {}, !.locks = {}]

\* Catalog as one connection sees it: committed objects plus its own
\* uncommitted DDL.
SeenSchemas(cr) == schemas \cup cr.pendSchemas
SeenObjs(cr) == objs \cup cr.pendObjs

RECURSIVE ResolveIn(_, _, _, _)
ResolveIn(path, i, obj, cr) ==
    IF i > Len(path) THEN NoNs
    ELSE IF path[i] \in SeenSchemas(cr) /\ <<path[i], obj>> \in SeenObjs(cr)
         THEN path[i]
         ELSE ResolveIn(path, i + 1, obj, cr)

\* The namespace an unqualified table name resolves to on the connection.
Resolve(cr, obj) == ResolveIn(EffPath(cr), 1, obj, cr)

\* Rows of an unqualified "projects" visible to a statement on the connection.
VisibleRows(cr) ==
    LET ns == Resolve(cr, "projects")
    IN  {r[2] : r \in {x \in rows \cup cr.pendRows : x[1] = ns}}

----------------------------------------------------------------------------
(* Pool and goroutine bookkeeping *)

NoSnap == [session |-> NoPath, txLocal |-> NoPath, inTx |-> FALSE]

NoExec == [c |-> None, path |-> NoPath, ns |-> NoNs, session |-> NoPath, setBy |-> None]

\* A goroutine: the call it runs (kind, tenant t, call id), the connection it
\* holds (c), what its last statement ran under (exec), what it read (seen),
\* what it returned (err; fnErr is what fn returned, rbErr what the rollback
\* returned), the session path of its connection when acquired (pre) and the
\* connection's state when released (rel); fault: an injected driver or
\* context failure hit the call; snap: the tenant row the call read; conc: the
\* call overlapped another call for the same tenant; dropErr: what a
\* DropTenantSchema made by the call returned; had: the tenant's namespace
\* existed when the call started; par: the call started while another
\* goroutine was inside a call; v: the version of the migration the call is
\* about and rb its rollback SQL; active, todo, tried, failed: the tenants
\* that the query of a statement looping over tenants returned, those it has
\* still to visit, those it has visited (in order), and those it has seen
\* fail; pendL, pendA: the ledger rows and executions the call's statement
\* has written and not yet committed; name: the schema name a GetSchemaName
\* call returned; log: what the call has written to the logger.
\* The header names a request can carry.
HeaderNames == {"X-Tenant", "X-Org"}

\* ResolverConfig and http.Request before a resolver call fills them in.
NoConfig ==
    [Strategy |-> None, HeaderName |-> "", PathPrefix |-> <<>>,
     ReservedSubdomain |-> {}]

NoRequest ==
    [Host |-> <<>>, Path |-> <<>>, Header |-> [h \in HeaderNames |-> <<>>]]

IdleWorker ==
    [pc |-> "idle", kind |-> None, t |-> NoTenant, id |-> 0, c |-> None,
     cancelled |-> FALSE, err |-> Nil, fnErr |-> Nil, seen |-> {},
     exec |-> NoExec, pre |-> NoPath, rel |-> NoSnap, rbErr |-> Nil,
     fault |-> FALSE, snap |-> None, conc |-> FALSE, dropErr |-> Nil,
     had |-> FALSE, par |-> FALSE, v |-> None, rb |-> NullSQL,
     active |-> {}, todo |-> {}, tried |-> <<>>, failed |-> {},
     pendL |-> {}, pendA |-> {}, name |-> <<>>, log |-> <<>>,
     cfg |-> NoConfig, req |-> NoRequest, subdomain |-> <<>>,
     looked |-> FALSE]

\* Entries of the zap logger.
Debug(msg) == [level |-> "debug", msg |-> msg]
Error(msg) == [level |-> "error", msg |-> msg]

\* Faulty variant: the message goes out at debug level.
Warn_Debug(msg) == [level |-> "debug", msg |-> msg]

Warn(msg) == [level |-> "warn", msg |-> msg]

Deprecation ==
    "GetTenantDB is deprecated and unsafe with connection pools. Use GetTenantConn or WithTenantTx instead."

Free(c) == conn[c].owner = None

\* Faulty variant: the pool hands out a connection that is still checked out.
Acquirable_Any(c) == TRUE

\* db.Conn / db.BeginTx / db.Exec take a connection no one holds.
Acquirable(c) == Free(c)

Release(cr) == [cr EXCEPT !.owner = None]

\* Errors are chains of messages, outermost first: fmt.Errorf("msg: %w", e).
Err(msg) == <<msg>>
Wrap(msg, e) == <<msg>> \o e

\* One statement on connection record cr: the path it ran under and the
\* namespace its unqualified "projects" resolved to.
Exec(c, cr) ==
    [c |-> c, path |-> EffPath(cr), ns |-> Resolve(cr, "projects"),
     session |-> cr.session, setBy |-> cr.setBy]

CanStart(w) == wk[w].pc = "idle" /\ nops < MaxOps

Begin(w, kind, t) ==
    [IdleWorker EXCEPT !.kind = kind, !.t = t, !.id = nops + 1]

Tag(w) == <<wk[w].t, wk[w].id>>

\* What a returning call leaves of the connection it used, taken at release.
Snapshot(cr) == [session |-> cr.session, txLocal |-> cr.txLocal, inTx |-> cr.inTx]

----------------------------------------------------------------------------
(* manager.WithTenantTx *)

\* Faulty variant: the SET LOCAL statement names no schema, so nothing is set.
TxSetQuery_Skipped(tenantID) == [cmd |-> "SET", isLocal |-> TRUE, idents |-> <<>>]

\* Faulty variant: plain SET instead of SET LOCAL.
TxSetQuery_Session(tenantID) == SetPathQuery(QuoteIdent(GetSchemaName(tenantID)), FALSE)

\* The transaction-local search path statement of WithTenantTx.
TxSetQuery(tenantID) == SetPathQuery(QuoteIdent(GetSchemaName(tenantID)), TRUE)

\* Faulty variant: the deferred conn.Close() is missing.
TxRelease_Leak(cr) == cr

\* The deferred conn.Close(): the connection goes back to the pool as it is.
TxRelease(cr) == Release(cr)

\* Faulty variant: the transaction is committed although fn failed.
RowsAfterFnErr_Commit(cr) == rows \cup cr.pendRows

\* tx.Rollback() after fn failed: what the tables hold afterwards.
RowsAfterFnErr(cr) == rows

\* Faulty variant: fn's error is wrapped like the router's own errors.
FnErrReturn_Wrapped(e, rb) == <<"transaction failed">> \o e

\* "tx.Rollback(); return err" after fn failed: e is fn's error, rb what
\* Rollback returned (dropped by the code).
FnErrReturn(e, rb) == e

\* tx.Rollback() on a transaction database/sql already rolled back.
ErrTxDone == Err("sql: transaction has already been committed or rolled back")
RollbackResult(w) == IF wk[w].cancelled THEN ErrTxDone ELSE Nil

TxLivePcs == {"txSet", "fn1", "fn2", "txCommit"}
FnPcs == {"fn1", "fn2"}

\* Every exit of WithTenantTx after the connection was acquired.
TxFinish(w, cr, newRows, err, fnErr) ==
    /\ conn' = [conn EXCEPT ![wk[w].c] = TxRelease(cr)]
    /\ rows' = newRows
    /\ wk' = [wk EXCEPT ![w] = [@ EXCEPT !.pc = "ret", !.err = err,
                                         !.fnErr = fnErr, !.rel = Snapshot(cr),
                                         !.rbErr = IF fnErr # Nil THEN RollbackResult(w) ELSE Nil]]
    /\ aborted' = IF err # Nil THEN aborted \cup {wk[w].id} ELSE aborted

\* conn, err := m.db.Conn(ctx); defer conn.Close(); tx, err := conn.BeginTx(ctx, nil)
TxConn(w, t) ==
    /\ CanStart(w)
    /\ nops' = nops + 1
    /\ \/ \E c \in Conns :
            /\ Acquirable(c)
            /\ conn' = [conn EXCEPT ![c] = [PgBegin(@) EXCEPT !.owner = w]]
            /\ wk' = [wk EXCEPT ![w] = [Begin(w, "tx", t) EXCEPT
                        !.pc = "txSet", !.c = c, !.pre = conn[c].session]]
            /\ aborted' = aborted
       \/ \E c \in Conns :
            /\ Acquirable(c)
            /\ conn' = [conn EXCEPT ![c] = TxRelease([@ EXCEPT !.owner = w])]
            /\ wk' = [wk EXCEPT ![w] = [Begin(w, "tx", t) EXCEPT
                        !.pc = "ret", !.c = c, !.pre = conn[c].session,
                        !.rel = Snapshot(conn[c]),
                        !.err = Wrap("failed to begin transaction", Err("driver error"))]]
            /\ aborted' = aborted \cup {nops + 1}
       \/ /\ wk' = [wk EXCEPT ![w] = [Begin(w, "tx", t) EXCEPT !.pc = "ret",
                        !.err = Wrap("failed to acquire connection", Err("context canceled"))]]
          /\ aborted' = aborted \cup {nops + 1}
          /\ conn' = conn
    /\ UNCHANGED <<schemas, objs, rows, status>>
    /\ UNCHANGED <<migVars, connections>>

\* tx.ExecContext(ctx, "SET LOCAL search_path TO ..., public")
TxSetLocal(w) ==
    /\ wk[w].pc = "txSet"
    /\ LET cr == conn[wk[w].c] IN
       \/ /\ ~wk[w].cancelled
          /\ conn' = [conn EXCEPT ![wk[w].c] = PgSetPath(cr, TxSetQuery(wk[w].t), "WithTenantTx")]
          /\ wk' = [wk EXCEPT ![w].pc = "fn1"]
          /\ UNCHANGED <<rows, aborted>>
       \/ TxFinish(w, PgRollback(cr), rows,
                   Wrap("failed to set search path",
                        IF wk[w].cancelled THEN Err("context canceled") ELSE Err("driver error")),
                   Nil)
    /\ UNCHANGED <<schemas, objs, status, nops>>
    /\ UNCHANGED <<migVars, connections>>

\* fn: tx.ExecContext(ctx, "INSERT INTO projects ...") with the call's own tag;
\* fn returns the statement's error if it fails
TxFnInsert(w) ==
    /\ wk[w].pc = "fn1"
    /\ LET cr == conn[wk[w].c]
           ns == Resolve(cr, "projects")
       IN
       \/ /\ ~wk[w].cancelled
          /\ ns # NoNs
          /\ conn' = [conn EXCEPT ![wk[w].c].pendRows = @ \cup {<<ns, Tag(w)>>}]
          /\ wk' = [wk EXCEPT ![w].pc = "fn2", ![w].exec = Exec(wk[w].c, cr)]
          /\ UNCHANGED <<rows, aborted>>
       \/ \E e \in {IF wk[w].cancelled THEN Err("context canceled") ELSE Err("driver error")} :
            TxFinish(w, PgRollback(cr), RowsAfterFnErr(cr), FnErrReturn(e, RollbackResult(w)), e)
    /\ UNCHANGED <<schemas, objs, status, nops>>
    /\ UNCHANGED <<migVars, connections>>

\* fn: tx.QueryRowContext(ctx, "SELECT ... FROM projects"), then fn returns nil
\* or an error of its own
TxFnRead(w) ==
    /\ wk[w].pc = "fn2"
    /\ LET cr == conn[wk[w].c]
           read == [wk[w] EXCEPT !.seen = VisibleRows(cr), !.exec = Exec(wk[w].c, cr)]
       IN
       \/ /\ ~wk[w].cancelled
          /\ wk' = [wk EXCEPT ![w] = [read EXCEPT !.pc = "txCommit"]]
          /\ UNCHANGED <<conn, rows, aborted>>
       \/ /\ ~wk[w].cancelled
          /\ \E e \in FnErrs :
               /\ conn' = [conn EXCEPT ![wk[w].c] = TxRelease(PgRollback(cr))]
               /\ rows' = RowsAfterFnErr(cr)
               /\ wk' = [wk EXCEPT ![w] = [read EXCEPT !.pc = "ret", !.err = FnErrReturn(e, Nil),
                              !.fnErr = e, !.rel = Snapshot(PgRollback(cr))]]
               /\ aborted' = aborted \cup {wk[w].id}
       \/ /\ wk[w].cancelled
          /\ TxFinish(w, PgRollback(cr), RowsAfterFnErr(cr),
                      FnErrReturn(Err("context canceled"), ErrTxDone), Err("context canceled"))
    /\ UNCHANGED <<schemas, objs, status, nops>>
    /\ UNCHANGED <<migVars, connections>>

\* tx.Commit()
TxCommit(w) ==
    /\ wk[w].pc = "txCommit"
    /\ LET cr == conn[wk[w].c] IN
       \/ /\ ~wk[w].cancelled
          /\ TxFinish(w, PgCommit(cr), rows \cup cr.pendRows, Nil, Nil)
       \/ TxFinish(w, PgRollback(cr), rows,
                   Wrap("failed to commit transaction",
                        IF wk[w].cancelled THEN Err("context canceled") ELSE Err("driver error")),
                   Nil)
    /\ UNCHANGED <<schemas, objs, status, nops>>
    /\ UNCHANGED <<migVars, connections>>

\* ctx is cancelled while the transaction is open: database/sql rolls the
\* transaction back at once; the goroutine finds out at its next statement.
TxCancel(w) ==
    /\ wk[w].pc \in TxLivePcs
    /\ wk[w].kind = "tx"
    /\ ~wk[w].cancelled
    /\ conn' = [conn EXCEPT ![wk[w].c] = PgRollback(@)]
    /\ wk' = [wk EXCEPT ![w].cancelled = TRUE]
    /\ UNCHANGED <<schemas, objs, rows, status, nops, aborted>>
    /\ UNCHANGED <<migVars, connections>>

\* The caller takes the result and goes on.
Return(w) ==
    /\ wk[w].pc = "ret"
    /\ wk' = [wk EXCEPT ![w] = IdleWorker]
    /\ UNCHANGED <<conn, schemas, objs, rows, status, nops, aborted>>
    /\ UNCHANGED <<migVars, connections>>

----------------------------------------------------------------------------
(* manager.GetTenantConn and its caller *)

\* Faulty variant: SET LOCAL on the bare connection, which has no transaction open.
ConnSetQuery_Local(tenantID) == SetPathQuery(QuoteIdent(GetSchemaName(tenantID)), TRUE)

\* The session-level search path statement of GetTenantConn.
ConnSetQuery(tenantID) == SetPathQuery(QuoteIdent(GetSchemaName(tenantID)), FALSE)

\* conn.Close() inside GetTenantConn when SET failed.
GcRelease(cr) == Release(cr)

\* Faulty variant: the connection stays checked out for its tenant after
\* the caller is done with it.
HolderClose_Keep(cr) == cr

\* The caller's conn.Close(): database/sql puts the connection back into the
\* pool; nothing is sent to the server (lib/pq keeps the session as it is).
HolderClose(cr) == Release(cr)

HoldPcs == {"hold1", "hold2", "hold3"}

\* conn, err := m.db.Conn(ctx)
GcConn(w, t) ==
    /\ CanStart(w)
    /\ nops' = nops + 1
    /\ \/ \E c \in Conns :
            /\ Acquirable(c)
            /\ conn' = [conn EXCEPT ![c].owner = w]
            /\ wk' = [wk EXCEPT ![w] = [Begin(w, "conn", t) EXCEPT
                        !.pc = "gcSet", !.c = c, !.pre = conn[c].session]]
       \/ /\ wk' = [wk EXCEPT ![w] = [Begin(w, "conn", t) EXCEPT !.pc = "ret",
                        !.err = Wrap("failed to acquire connection", Err("context canceled"))]]
          /\ conn' = conn
    /\ UNCHANGED <<schemas, objs, rows, status, aborted>>
    /\ UNCHANGED <<migVars, connections>>

\* conn.ExecContext(ctx, "SET search_path TO ..., public"); return conn, nil
GcSetPath(w) ==
    /\ wk[w].pc = "gcSet"
    /\ LET cr == conn[wk[w].c] IN
       \/ /\ conn' = [conn EXCEPT ![wk[w].c] = PgSetPath(cr, ConnSetQuery(wk[w].t), "GetTenantConn")]
          /\ wk' = [wk EXCEPT ![w].pc = "hold1",
                              ![w].log = <<Debug("Acquired tenant connection")>>]
       \/ /\ conn' = [conn EXCEPT ![wk[w].c] = GcRelease(cr)]
          /\ wk' = [wk EXCEPT ![w] = [@ EXCEPT !.pc = "ret", !.rel = Snapshot(cr),
                        !.err = Wrap("failed to set search path", Err("driver error"))]]
    /\ UNCHANGED <<schemas, objs, rows, status, nops, aborted>>
    /\ UNCHANGED <<migVars, connections>>

\* caller: conn.ExecContext(ctx, "INSERT INTO projects ...") (autocommit)
HoldInsert(w) ==
    /\ wk[w].pc = "hold1"
    /\ LET cr == conn[wk[w].c]
           ns == Resolve(cr, "projects")
       IN
       /\ rows' = IF ns # NoNs THEN rows \cup {<<ns, Tag(w)>>} ELSE rows
       /\ wk' = [wk EXCEPT ![w].pc = IF ns # NoNs THEN "hold2" ELSE "hold3",
                           ![w].exec = Exec(wk[w].c, cr)]
    /\ UNCHANGED <<conn, schemas, objs, status, nops, aborted>>
    /\ UNCHANGED <<migVars, connections>>

\* caller: conn.QueryContext(ctx, "SELECT name FROM projects")
HoldRead(w) ==
    /\ wk[w].pc = "hold2"
    /\ LET cr == conn[wk[w].c] IN
       wk' = [wk EXCEPT ![w].pc = "hold3", ![w].seen = VisibleRows(cr),
                        ![w].exec = Exec(wk[w].c, cr)]
    /\ UNCHANGED <<conn, schemas, objs, rows, status, nops, aborted>>
    /\ UNCHANGED <<migVars, connections>>

\* caller: defer conn.Close()
HoldClose(w) ==
    /\ wk[w].pc = "hold3"
    /\ conn' = [conn EXCEPT ![wk[w].c] = HolderClose(@)]
    /\ wk' = [wk EXCEPT ![w] = IdleWorker]
    /\ UNCHANGED <<schemas, objs, rows, status, nops, aborted>>
    /\ UNCHANGED <<migVars, connections>>

----------------------------------------------------------------------------
(* manager.GetTenantDB (deprecated) and statements on the shared handle *)

\* SchemaManager.SetSearchPath(db, tenantID): db.Exec runs the SET on whichever
\* pooled connection is free and hands it straight back.
SetSearchPath(c, tenantID) ==
    [conn EXCEPT ![c] = PgSetPath(@, SetPathQuery(quotedSchemaName(tenantID), FALSE), "GetTenantDB")]

\* m.logger.Warn(...) comes first, whatever SetSearchPath does next.
GetTenantDB(w, t) ==
    /\ CanStart(w)
    /\ nops' = nops + 1
    /\ \/ \E c \in Conns :
            /\ Acquirable(c)
            /\ conn' = SetSearchPath(c, t)
            /\ wk' = [wk EXCEPT ![w] = [Begin(w, "db", t) EXCEPT !.pc = "db1",
                        !.log = <<Warn(Deprecation)>>]]
       \/ /\ conn' = conn
          /\ wk' = [wk EXCEPT ![w] = [Begin(w, "db", t) EXCEPT !.pc = "ret",
                        !.log = <<Warn(Deprecation), Error("Failed to set search path")>>,
                        !.err = Wrap("failed to set tenant context",
                                     Wrap("error setting search path", Err("driver error")))]]
    /\ UNCHANGED <<schemas, objs, rows, status, aborted>>
    /\ UNCHANGED <<migVars, connections>>

\* caller: db.Exec("INSERT INTO projects ...") on the returned *sql.DB
DbInsert(w) ==
    /\ wk[w].pc = "db1"
    /\ \E c \in Conns :
         /\ Acquirable(c)
         /\ LET ns == Resolve(conn[c], "projects") IN
            rows' = IF ns # NoNs THEN rows \cup {<<ns, Tag(w)>>} ELSE rows
         /\ wk' = [wk EXCEPT ![w].pc = "db2", ![w].exec = Exec(c, conn[c])]
    /\ UNCHANGED <<conn, schemas, objs, status, nops, aborted>>
    /\ UNCHANGED <<migVars, connections>>

\* caller: db.QueryRow("SELECT COUNT(*) FROM projects ...") on the returned *sql.DB
DbRead(w) ==
    /\ wk[w].pc = "db2"
    /\ \E c \in Conns :
         /\ Acquirable(c)
         /\ wk' = [wk EXCEPT ![w] = [@ EXCEPT !.pc = "ret", !.seen = VisibleRows(conn[c]),
                                              !.exec = Exec(c, conn[c])]]
    /\ UNCHANGED <<conn, schemas, objs, rows, status, nops, aborted>>
    /\ UNCHANGED <<migVars, connections>>

\* manager.GetTenant -> Repository.GetByID: an untenanted statement, run by
\* db.QueryRowContext on whichever pooled connection is free
GetTenant(w, t) ==
    /\ CanStart(w)
    /\ nops' = nops + 1
    /\ \E c \in Conns :
         /\ Acquirable(c)
         /\ wk' = [wk EXCEPT ![w] = [Begin(w, "pool", NoTenant) EXCEPT
                     !.pc = "ret", !.exec = Exec(c, conn[c])]]
    /\ UNCHANGED <<conn, schemas, objs, rows, status, aborted>>
    /\ UNCHANGED <<migVars, connections>>

----------------------------------------------------------------------------
(* The router on provisioned tenants *)

ProvisionedObjs ==
    {<<GetSchemaName(t), o>> : t \in TenantIDs, o \in TenantObjects}

\* A pooled connection that still carries the path CreateTenantSchema
\* committed on it.
LeftBySchemaCreation(t) ==
    [FreshConn EXCEPT !.session = TenantPath(t), !.saved = TenantPath(t),
                      !.setBy = "CreateTenantSchema", !.savedBy = "CreateTenantSchema"]

Provisioned ==
    /\ schemas = Namespaces
    /\ objs = ProvisionedObjs
    /\ rows = {}
    /\ status = [t \in TenantIDs |-> "active"]
    /\ wk = [w \in Workers |-> IdleWorker]
    /\ nops = 0
    /\ connections = NewManager.connections
    /\ aborted = {}
    /\ NoMigrations

\* A fresh pool over a database whose tenants are provisioned.
Init ==
    /\ conn = [c \in Conns |-> FreshConn]
    /\ Provisioned

Next ==
    \E w \in Workers :
       \/ \E t \in TenantIDs : TxConn(w, t)
       \/ TxSetLocal(w)
       \/ TxFnInsert(w)
       \/ TxFnRead(w)
       \/ TxCommit(w)
       \/ TxCancel(w)
       \/ \E t \in TenantIDs : GcConn(w, t)
       \/ GcSetPath(w)
       \/ HoldInsert(w)
       \/ HoldRead(w)
       \/ HoldClose(w)
       \/ \E t \in TenantIDs : GetTenantDB(w, t)
       \/ DbInsert(w)
       \/ DbRead(w)
       \/ \E t \in TenantIDs : GetTenant(w, t)
       \/ Return(w)

Spec == Init /\ [][Next]_vars

----------------------------------------------------------------------------
(* Concurrent WithTenantTx calls for pairwise distinct tenants, one call per
   goroutine, on a pool whose connections carry whatever earlier work left *)

InitConns ==
    {f \in [Conns -> {FreshConn} \cup {LeftBySchemaCreation(t) : t \in TenantIDs}] :
        \A c, d \in Conns : (c # d /\ f[c].session = f[d].session) => f[c].session = DefaultPath}

InitIso ==
    /\ conn \in InitConns
    /\ Provisioned

NextIso ==
    \E w \in Workers :
       \/ \E t \in TenantIDs : (\A v \in Workers : wk[v].t # t) /\ TxConn(w, t)
       \/ TxSetLocal(w)
       \/ TxFnInsert(w)
       \/ TxFnRead(w)
       \/ TxCommit(w)
       \/ TxCancel(w)

SpecIso == InitIso /\ [][NextIso]_vars

----------------------------------------------------------------------------
(* manager.ProvisionTenant, SchemaManager.CreateTenantSchema and
   SchemaManager.DropTenantSchema *)

ProvPcs == {"pvExists", "csBegin", "csSchema", "csWait", "csPath", "csTables",
            "csTriggers", "csCommit", "pvUpdate", "pvDrop"}

\* Another ProvisionTenant call for tenant t is in flight.
InFlightFor(w, t) ==
    \E v \in Workers \ {w} : wk[v].kind = "prov" /\ wk[v].t = t /\ wk[v].pc \in ProvPcs

\* The name the server creates or drops for the quoted identifier in the DDL.
DdlName(tenantID) == ParseIdent(quotedSchemaName(tenantID))

RECURSIVE FirstExisting(_, _, _)
FirstExisting(path, i, cr) ==
    IF i > Len(path) THEN NoNs
    ELSE IF path[i] \in SeenSchemas(cr) THEN path[i]
         ELSE FirstExisting(path, i + 1, cr)

\* Where an unqualified CREATE puts its object: the first namespace of the
\* path that exists.
CreationNs(cr) == FirstExisting(EffPath(cr), 1, cr)

\* Another open transaction has created the namespace and not yet ended.
PendingElsewhere(c, name) ==
    \E d \in Conns \ {c} : conn[d].inTx /\ name \in conn[d].pendSchemas

\* An open transaction uses the namespace: it created it, or it created or
\* looked up tables in it.
InUse(name) ==
    \E d \in Conns : conn[d].inTx /\ name \in conn[d].pendSchemas \cup conn[d].locks

\* SELECT EXISTS(SELECT 1 FROM information_schema.schemata WHERE schema_name = $1)
\* with GetSchemaName(tenantID) as the parameter
SchemaExists(tenantID) == GetSchemaName(tenantID) \in schemas

\* Tenant t's namespace exists and holds every object CreateTenantSchema
\* creates.
FullyProvisioned(t) ==
    /\ GetSchemaName(t) \in schemas
    /\ \A o \in TenantObjects : <<GetSchemaName(t), o>> \in objs

\* ProvisionTenant wraps what CreateTenantSchema returns; a direct caller of
\* CreateTenantSchema gets it as it is.
CreateErr(w, e) ==
    IF wk[w].kind = "prov" THEN Wrap("failed to create tenant schema", e) ELSE e

\* A ProvisionTenant or CreateTenantSchema return.
PvReturn(w, err, faulty) ==
    [wk[w] EXCEPT !.pc = "ret", !.err = err, !.fault = faulty, !.c = None]

\* Faulty variant: the DDL run so far stays although the call failed.
CatalogAfterFail_Kept(cr) == [schemas |-> schemas \cup cr.pendSchemas, objs |-> objs \cup cr.pendObjs]

\* The deferred tx.Rollback() after a failure: the catalog is as it was.
CatalogAfterFail(cr) == [schemas |-> schemas, objs |-> objs]

\* An error return of CreateTenantSchema: the deferred tx.Rollback() runs
\* and the connection goes back to the pool; ProvisionTenant wraps the error.
CsFail(w, msg, cause, faulty) ==
    /\ conn' = [conn EXCEPT ![wk[w].c] = Release(PgRollback(@))]
    /\ schemas' = CatalogAfterFail(conn[wk[w].c]).schemas
    /\ objs' = CatalogAfterFail(conn[wk[w].c]).objs
    /\ wk' = [wk EXCEPT ![w] = PvReturn(w, CreateErr(w, Wrap(msg, cause)), faulty)]
    /\ UNCHANGED <<rows, status, nops, aborted>>

\* tenant, err := m.repository.GetByID(ctx, id)
PvGetByID(w, t) ==
    /\ CanStart(w)
    /\ nops' = nops + 1
    /\ \E c \in Conns : Acquirable(c)
    /\ \/ wk' = [wk EXCEPT ![w] = [Begin(w, "prov", t) EXCEPT
                    !.pc = "pvExists", !.snap = status[t], !.conc = InFlightFor(w, t),
                    !.par = \E v \in Workers \ {w} : wk[v].pc \in ProvPcs]]
       \/ wk' = [wk EXCEPT ![w] = [Begin(w, "prov", t) EXCEPT
                    !.pc = "ret", !.fault = TRUE, !.conc = InFlightFor(w, t),
                    !.err = Wrap("failed to get tenant", Err("driver error"))]]
    /\ UNCHANGED <<conn, schemas, objs, rows, status, aborted>>
    /\ UNCHANGED <<migVars, connections>>

\* exists, err := m.schemaManager.SchemaExists(ctx, id); if exists return nil
PvSchemaExists(w) ==
    /\ wk[w].pc = "pvExists"
    /\ \E c \in Conns : Acquirable(c)
    /\ \/ /\ SchemaExists(wk[w].t)
          /\ wk' = [wk EXCEPT ![w] = PvReturn(w, Nil, FALSE)]
       \/ /\ ~SchemaExists(wk[w].t)
          /\ wk' = [wk EXCEPT ![w].pc = "csBegin"]
       \/ wk' = [wk EXCEPT ![w] = PvReturn(w,
                    Wrap("failed to check schema existence",
                         Wrap("error checking schema existence", Err("driver error"))), TRUE)]
    /\ UNCHANGED <<conn, schemas, objs, rows, status, nops, aborted>>
    /\ UNCHANGED <<migVars, connections>>

\* tx, err := sm.db.BeginTx(ctx, nil); defer tx.Rollback()
CsBegin(w) ==
    /\ wk[w].pc = "csBegin"
    /\ \/ \E c \in Conns :
            /\ Acquirable(c)
            /\ conn' = [conn EXCEPT ![c] = [PgBegin(@) EXCEPT !.owner = w]]
            /\ wk' = [wk EXCEPT ![w].pc = "csSchema", ![w].c = c,
                                ![w].pre = conn[c].session]
       \/ /\ conn' = conn
          /\ wk' = [wk EXCEPT ![w] = PvReturn(w,
                       CreateErr(w, Wrap("failed to begin transaction", Err("driver error"))), TRUE)]
    /\ UNCHANGED <<schemas, objs, rows, status, nops, aborted>>
    /\ UNCHANGED <<migVars, connections>>

\* tx.ExecContext(ctx, "CREATE SCHEMA IF NOT EXISTS <quoted>"): a no-op when
\* the transaction sees the namespace; it waits while another open
\* transaction has created the same name.
CsCreateSchema(w) ==
    /\ wk[w].pc = "csSchema"
    /\ LET c == wk[w].c
           cr == conn[c]
           name == DdlName(wk[w].t)
       IN
       \/ /\ name \in SeenSchemas(cr)
          /\ wk' = [wk EXCEPT ![w].pc = "csPath"]
          /\ UNCHANGED <<conn, schemas, objs, rows, status, nops, aborted>>
       \/ /\ name \notin SeenSchemas(cr)
          /\ PendingElsewhere(c, name)
          /\ wk' = [wk EXCEPT ![w].pc = "csWait"]
          /\ UNCHANGED <<conn, schemas, objs, rows, status, nops, aborted>>
       \/ /\ name \notin SeenSchemas(cr)
          /\ ~PendingElsewhere(c, name)
          /\ conn' = [conn EXCEPT ![c].pendSchemas = @ \cup {name}]
          /\ wk' = [wk EXCEPT ![w].pc = "csPath"]
          /\ UNCHANGED <<schemas, objs, rows, status, nops, aborted>>
       \/ CsFail(w, "failed to create schema", Err("driver error"), TRUE)
    /\ UNCHANGED <<migVars, connections>>

\* The waiting CREATE SCHEMA goes on when the other transaction has ended:
\* it creates the namespace if the other rolled back, and fails on the
\* catalog's unique index if the other committed.
CsWait(w) ==
    /\ wk[w].pc = "csWait"
    /\ LET c == wk[w].c
           name == DdlName(wk[w].t)
       IN
       /\ ~PendingElsewhere(c, name)
       /\ \/ /\ name \notin schemas
             /\ conn' = [conn EXCEPT ![c].pendSchemas = @ \cup {name}]
             /\ wk' = [wk EXCEPT ![w].pc = "csPath"]
             /\ UNCHANGED <<schemas, objs, rows, status, nops, aborted>>
          \/ /\ name \in schemas
             /\ CsFail(w, "failed to create schema",
                       Err("duplicate key value violates unique constraint"), FALSE)
    /\ UNCHANGED <<migVars, connections>>

\* Faulty variant: public comes first in the path.
CsSetQuery_PublicFirst(tenantID) ==
    [cmd |-> "SET", isLocal |-> FALSE, idents |-> <<Public, quotedSchemaName(tenantID)>>]

\* The search path statement of CreateTenantSchema.
CsSetQuery(tenantID) == SetPathQuery(quotedSchemaName(tenantID), FALSE)

\* tx.ExecContext(ctx, "SET search_path TO <quoted>, public")
CsSetPath(w) ==
    /\ wk[w].pc = "csPath"
    /\ \/ /\ conn' = [conn EXCEPT ![wk[w].c] =
                        PgSetPath(@, CsSetQuery(wk[w].t), "CreateTenantSchema")]
          /\ wk' = [wk EXCEPT ![w].pc = "csTables"]
          /\ UNCHANGED <<schemas, objs, rows, status, nops, aborted>>
       \/ CsFail(w, "failed to set search path", Err("driver error"), TRUE)
    /\ UNCHANGED <<migVars, connections>>

\* createTenantTables: CREATE TABLE IF NOT EXISTS x4, CREATE INDEX IF NOT
\* EXISTS x7, all unqualified
CsTables(w) ==
    /\ wk[w].pc = "csTables"
    /\ LET c == wk[w].c
           ns == CreationNs(conn[c])
       IN
       \/ /\ conn' = [conn EXCEPT
                        ![c].pendObjs = @ \cup {<<ns, o>> : o \in TenantTables \cup TenantIndexes},
                        ![c].locks = @ \cup {ns}]
          /\ wk' = [wk EXCEPT ![w].pc = "csTriggers"]
          /\ UNCHANGED <<schemas, objs, rows, status, nops, aborted>>
       \/ CsFail(w, "failed to create tenant tables",
                 Wrap("failed to create table", Err("driver error")), TRUE)
    /\ UNCHANGED <<migVars, connections>>

\* createTenantTables: CREATE OR REPLACE FUNCTION, then CREATE TRIGGER x3 on
\* the unqualified tables; CREATE TRIGGER fails when the table has the trigger
CsTriggers(w) ==
    /\ wk[w].pc = "csTriggers"
    /\ LET c == wk[w].c
           cr == conn[c]
           fns == {<<CreationNs(cr), f>> : f \in TenantFunctions}
           tbl == Resolve(cr, "projects")
       IN
       \/ /\ \A g \in TenantTriggers : <<tbl, g>> \notin SeenObjs(cr)
          /\ conn' = [conn EXCEPT ![c].pendObjs =
                         @ \cup fns \cup {<<tbl, g>> : g \in TenantTriggers}]
          /\ wk' = [wk EXCEPT ![w].pc = "csCommit"]
          /\ UNCHANGED <<schemas, objs, rows, status, nops, aborted>>
       \/ /\ \E g \in TenantTriggers : <<tbl, g>> \in SeenObjs(cr)
          /\ CsFail(w, "failed to create tenant tables",
                    Wrap("failed to create trigger", Err("trigger already exists")), FALSE)
       \/ CsFail(w, "failed to create tenant tables",
                 Wrap("failed to create trigger", Err("driver error")), TRUE)
    /\ UNCHANGED <<migVars, connections>>

\* tx.Commit(); return nil
CsCommit(w) ==
    /\ wk[w].pc = "csCommit"
    /\ LET cr == conn[wk[w].c] IN
       \/ /\ conn' = [conn EXCEPT ![wk[w].c] = Release(PgCommit(cr))]
          /\ schemas' = schemas \cup cr.pendSchemas
          /\ objs' = objs \cup cr.pendObjs
          /\ wk' = [wk EXCEPT ![w] = IF wk[w].kind = "prov"
                                      THEN [@ EXCEPT !.pc = "pvUpdate", !.c = None]
                                      ELSE PvReturn(w, Nil, FALSE)]
          /\ UNCHANGED <<rows, status, nops, aborted>>
       \/ CsFail(w, "failed to commit transaction", Err("driver error"), TRUE)
    /\ UNCHANGED <<migVars, connections>>

\* Faulty variant: the statement drops nothing.
DropSchema_Noop(name) == UNCHANGED <<schemas, objs, rows>>

\* DROP SCHEMA IF EXISTS <quoted> CASCADE: the namespace goes with all it holds.
DropSchema(name) ==
    /\ schemas' = schemas \ {name}
    /\ objs' = {o \in objs : o[1] # name}
    /\ rows' = {r \in rows : r[1] # name}

\* tenant.Status = StatusActive; m.repository.Update(ctx, tenant)
PvUpdate(w) ==
    /\ wk[w].pc = "pvUpdate"
    /\ \E c \in Conns : Acquirable(c)
    /\ \/ /\ status' = [status EXCEPT ![wk[w].t] = "active"]
          /\ wk' = [wk EXCEPT ![w] = PvReturn(w, Nil, FALSE)]
       \/ /\ status' = status
          /\ wk' = [wk EXCEPT ![w].pc = "pvDrop", ![w].fault = TRUE]
    /\ UNCHANGED <<conn, schemas, objs, rows, nops, aborted>>
    /\ UNCHANGED <<migVars, connections>>

\* What a failing DropTenantSchema returns.
DropErr == Wrap("failed to drop schema", Err("driver error"))

\* Faulty variant: ProvisionTenant reports success after its cleanup.
PvDropReturn_Nil(updErr, dropErr) == Nil

\* What ProvisionTenant returns after the update failed and the cleanup ran:
\* the update error, wrapped; dropErr is logged only.
PvDropReturn(updErr, dropErr) == Wrap("failed to update tenant status", updErr)

\* m.schemaManager.DropTenantSchema(ctx, id) after the update failed; its own
\* error is logged only
PvDrop(w) ==
    /\ wk[w].pc = "pvDrop"
    /\ \E c \in Conns : Acquirable(c)
    /\ LET updErr == Wrap("failed to update tenant", Err("driver error")) IN
       \/ /\ ~InUse(DdlName(wk[w].t))
          /\ DropSchema(DdlName(wk[w].t))
          /\ wk' = [wk EXCEPT ![w] = PvReturn(w, PvDropReturn(updErr, Nil), TRUE)]
       \/ /\ UNCHANGED <<schemas, objs, rows>>
          /\ wk' = [wk EXCEPT ![w] = [PvReturn(w, PvDropReturn(updErr, DropErr), TRUE)
                                        EXCEPT !.dropErr = DropErr]]
    /\ UNCHANGED <<conn, status, nops, aborted>>
    /\ UNCHANGED <<migVars, connections>>

\* manager.DeleteTenant -> Repository.Delete: UPDATE tenants SET status =
\* 'cancelled'; the namespace is not touched
\* Faulty variant: the tenant's row is deleted from tenants, and the ledger's
\* foreign key (ON DELETE CASCADE) removes the tenant's ledger rows.
LedgerAfterDelete_Cascade(t) == {r \in ledger : r.tenant_id # t}

\* Repository.Delete is a soft delete, an UPDATE of the tenant's status: no
\* row of tenants goes away, so the ledger's foreign key removes nothing.
LedgerAfterDelete(t) == ledger

DeleteTenant(w, t) ==
    /\ CanStart(w)
    /\ nops' = nops + 1
    /\ \E c \in Conns : Acquirable(c)
    /\ \/ /\ status' = [status EXCEPT ![t] = "cancelled"]
          /\ ledger' = LedgerAfterDelete(t)
          /\ wk' = [wk EXCEPT ![w] = [Begin(w, "delete", t) EXCEPT !.pc = "ret"]]
       \/ /\ status' = status
          /\ ledger' = ledger
          /\ wk' = [wk EXCEPT ![w] = [Begin(w, "delete", t) EXCEPT !.pc = "ret", !.fault = TRUE,
                        !.err = Wrap("failed to delete tenant", Err("driver error"))]]
    /\ UNCHANGED <<conn, schemas, objs, rows, aborted, pg, applied, connections>>

\* SuspendTenant: GetByID, then Update with the status set to suspended.
SuspendTenant(w, t) ==
    /\ CanStart(w)
    /\ nops' = nops + 1
    /\ \E c \in Conns : Acquirable(c)
    /\ \/ /\ status' = [status EXCEPT ![t] = "suspended"]
          /\ wk' = [wk EXCEPT ![w] = [Begin(w, "suspend", t) EXCEPT !.pc = "ret"]]
       \/ /\ status' = status
          /\ wk' = [wk EXCEPT ![w] = [Begin(w, "suspend", t) EXCEPT !.pc = "ret", !.fault = TRUE,
                        !.err = Wrap("failed to suspend tenant", Err("driver error"))]]
    /\ UNCHANGED <<conn, schemas, objs, rows, aborted>>
    /\ UNCHANGED <<migVars, connections>>

----------------------------------------------------------------------------
(* SchemaManager called directly: CreateTenantSchema and DropTenantSchema on
   a database where any of the tenants may already be provisioned *)

\* CreateTenantSchema(ctx, tenantID, name) called by itself
ScCreate(w, t) ==
    /\ CanStart(w)
    /\ nops' = nops + 1
    /\ wk' = [wk EXCEPT ![w] = [Begin(w, "create", t) EXCEPT
                 !.pc = "csBegin", !.had = SchemaExists(t)]]
    /\ UNCHANGED <<conn, schemas, objs, rows, status, aborted>>
    /\ UNCHANGED <<migVars, connections>>

\* A drop of t's namespace cuts across the calls that are creating it.
CrossedByDrop(w, t) ==
    [v \in Workers |->
        IF v # w /\ wk[v].kind \in {"create", "prov"} /\ wk[v].t = t /\ wk[v].pc \in ProvPcs
        THEN [wk[v] EXCEPT !.conc = TRUE]
        ELSE wk[v]]

\* DropTenantSchema(ctx, tenantID) called by itself: one statement through
\* sm.db.ExecContext, its error wrapped and returned
ScDrop(w, t) ==
    /\ CanStart(w)
    /\ nops' = nops + 1
    /\ \E c \in Conns : Acquirable(c)
    /\ \/ /\ ~InUse(DdlName(t))
          /\ DropSchema(DdlName(t))
          /\ wk' = [CrossedByDrop(w, t) EXCEPT ![w] = [Begin(w, "drop", t) EXCEPT
                        !.pc = "ret", !.had = SchemaExists(t)]]
       \/ /\ UNCHANGED <<schemas, objs, rows>>
          /\ wk' = [wk EXCEPT ![w] = [Begin(w, "drop", t) EXCEPT !.pc = "ret", !.fault = TRUE,
                        !.err = DropErr, !.dropErr = DropErr]]
    /\ UNCHANGED <<conn, status, aborted>>
    /\ UNCHANGED <<migVars, connections>>

\* The data of a provisioned tenant: one row, written before the calls start.
StoredRow(t) == <<GetSchemaName(t), <<t, 0>>>>

\* Any set of tenants is provisioned and holds data; the pooled connections
\* carry whatever earlier work left.
InitSchema ==
    /\ conn \in InitConns
    /\ \E P \in SUBSET TenantIDs :
         /\ schemas = {Public} \cup {GetSchemaName(t) : t \in P}
         /\ objs = {<<GetSchemaName(t), o>> : t \in P, o \in TenantObjects}
         /\ rows = {StoredRow(t) : t \in P}
         /\ status = [t \in TenantIDs |-> IF t \in P THEN "active" ELSE "pending"]
    /\ wk = [w \in Workers |-> IdleWorker]
    /\ nops = 0
    /\ connections = NewManager.connections
    /\ aborted = {}
    /\ NoMigrations

NextSchema ==
    \E w \in Workers :
       \/ \E t \in TenantIDs : ScCreate(w, t)
       \/ CsBegin(w)
       \/ CsCreateSchema(w)
       \/ CsWait(w)
       \/ CsSetPath(w)
       \/ CsTables(w)
       \/ CsTriggers(w)
       \/ CsCommit(w)
       \/ \E t \in TenantIDs : ScDrop(w, t)
       \/ Return(w)

SpecSchema == InitSchema /\ [][NextSchema]_vars

----------------------------------------------------------------------------
(* Provisioning, soft deletion and explicit drops on a database that holds
   the master tables only *)

\* A fresh pool over a database that holds the master tables only: every
\* tenant is registered and none is provisioned.
InitProv ==
    /\ conn = [c \in Conns |-> FreshConn]
    /\ schemas = {Public}
    /\ objs = {}
    /\ rows = {}
    /\ status = [t \in TenantIDs |-> "pending"]
    /\ wk = [w \in Workers |-> IdleWorker]
    /\ nops = 0
    /\ connections = NewManager.connections
    /\ aborted = {}
    /\ NoMigrations

NextProv ==
    \E w \in Workers :
       \/ \E t \in TenantIDs : PvGetByID(w, t)
       \/ PvSchemaExists(w)
       \/ CsBegin(w)
       \/ CsCreateSchema(w)
       \/ CsWait(w)
       \/ CsSetPath(w)
       \/ CsTables(w)
       \/ CsTriggers(w)
       \/ CsCommit(w)
       \/ PvUpdate(w)
       \/ PvDrop(w)
       \/ \E t \in TenantIDs : DeleteTenant(w, t)
       \/ \E t \in TenantIDs : ScDrop(w, t)
       \/ Return(w)

SpecProv == InitProv /\ [][NextProv]_vars

----------------------------------------------------------------------------
(* Migrations: MigrationManager.ApplyMigration over the plpgsql functions.
   Each call of a function is one statement sent with db.ExecContext or
   db.QueryRowContext: the server runs it in a transaction of its own, so it
   takes effect as a whole or not at all. *)

InCall(w) == wk[w].pc \notin {"idle", "ret"}

\* get_tenant_schema_name, and the same expression inlined in
\* apply_tenant_migration: the prefix and the text of the UUID as it is.
get_tenant_schema_name(tenant_uuid) == <<"tenant_">> \o tenant_uuid

PgResult(err, val) == [err |-> err, val |-> val]

Ambiguous(name) == <<"column reference is ambiguous", name>>
UndefinedColumn(name) == <<"column does not exist", name>>

\* "WHERE name = name" where name is a column of the queried table and a
\* variable of the function: the server's setting decides which of the two
\* both sides mean.
NameMatches(column, variable) ==
    IF pg.conflict = "use_variable" THEN variable = variable ELSE column = column

\* validate_tenant_schema(tenant_uuid)
validate_tenant_schema(tenant_uuid) ==
    LET schema_name == get_tenant_schema_name(tenant_uuid)
    IN  IF pg.conflict = "error"
        THEN PgResult(Ambiguous("schema_name"), FALSE)
        ELSE PgResult(Nil, \E s \in schemas : NameMatches(s, schema_name))

\* MigrationManager.validateTenantSchema: a failed query counts as "no".
validateTenantSchema(tenantID) ==
    LET r == validate_tenant_schema(tenantID)
    IN  IF r.err # Nil THEN FALSE ELSE r.val

\* is_tenant_migration_applied(tenant_uuid, migration_version)
is_tenant_migration_applied(tenant_uuid, migration_version) ==
    IF "migration_version" \notin pg.ledgerColumns
    THEN PgResult(UndefinedColumn("migration_version"), FALSE)
    ELSE IF pg.conflict = "error"
    THEN PgResult(Ambiguous("migration_version"), FALSE)
    ELSE PgResult(Nil, \E r \in ledger :
                          /\ r.tenant_id = tenant_uuid
                          /\ NameMatches(r.migration_version, migration_version))

\* MigrationManager.IsMigrationApplied
IsMigrationApplied(tenantID, version) ==
    LET r == is_tenant_migration_applied(tenantID, version)
    IN  IF r.err # Nil
        THEN PgResult(Wrap("failed to check if migration is applied", r.err), FALSE)
        ELSE r

\* What a migration's SQL does: version 001 creates a table of its own,
\* version 002 alters the tenant table projects.
MigrationSQL(version) ==
    IF version = "001" THEN [cmd |-> "CREATE TABLE", obj |-> "migrated"]
                       ELSE [cmd |-> "ALTER TABLE", obj |-> "projects"]

\* The SQL that undoes it.
RollbackSQL(version) ==
    IF version = "001" THEN [cmd |-> "DROP TABLE", obj |-> "migrated"]
                       ELSE [cmd |-> "ALTER TABLE", obj |-> "projects"]

\* sql.NullString built from migration.RollbackSQL
RollbackArg(version, hasRollback) ==
    IF hasRollback THEN RollbackSQL(version) ELSE NullSQL

\* The row apply_tenant_migration inserts.
LedgerRow(id, t, v, rollback_sql) ==
    [id |-> id, tenant_id |-> t, migration_version |-> v, rollback_sql |-> rollback_sql]

\* One execution of a migration's SQL: the call that made it and the
\* namespace it took effect in.
Execution(id, t, v, ns) == [id |-> id, tenant_id |-> t, version |-> v, ns |-> ns]

\* The table a migration created exists in namespace ns, given the
\* executions app.
MigratedIn(app, ns, obj) ==
    \E a \in app : a.ns = ns /\ MigrationSQL(a.version) = [cmd |-> "CREATE TABLE", obj |-> obj]

RECURSIVE ResolveMigrated(_, _, _, _, _)
ResolveMigrated(path, i, obj, cr, app) ==
    IF i > Len(path) THEN NoNs
    ELSE IF path[i] \in SeenSchemas(cr)
            /\ (<<path[i], obj>> \in SeenObjs(cr) \/ MigratedIn(app, path[i], obj))
         THEN path[i]
         ELSE ResolveMigrated(path, i + 1, obj, cr, app)

\* The namespace a statement of a migration takes effect in on connection
\* record cr: a CREATE lands in the first namespace of the path that exists,
\* an ALTER or DROP in the namespace its table resolves to (NoNs: the
\* statement fails).
MigrationTarget(cr, sql, app) ==
    IF sql.cmd = "CREATE TABLE" THEN CreationNs(cr)
    ELSE ResolveMigrated(EffPath(cr), 1, sql.obj, cr, app)

\* apply_tenant_migration(tenant_uuid, migration_version, ...) run on
\* connection record cr, up to the execution of the migration's SQL, by a
\* statement that sees the ledger rows led and the executions app:
\* err: the exception raised; skip: the ledger already holds the row; path:
\* the search_path the function sets; ns: where the SQL takes effect.
apply_tenant_migration(cr, led, app, tenant_uuid, migration_version) ==
    LET schema_name == get_tenant_schema_name(tenant_uuid)
        query == SetPathQuery(QuoteIdent(schema_name), FALSE)
        scoped == PgSetPath(cr, query, "apply_tenant_migration")
        sql == MigrationSQL(migration_version)
        ns == MigrationTarget(scoped, sql, app)
        out(err, skip) == [err |-> err, skip |-> skip, path |-> ParsePath(query), ns |-> ns]
    IN  IF ~pg.pgcrypto THEN out(<<"function does not exist", "digest">>, FALSE)
        ELSE IF "migration_version" \notin pg.ledgerColumns
        THEN out(UndefinedColumn("migration_version"), FALSE)
        ELSE IF \E r \in led : r.tenant_id = tenant_uuid
                               /\ r.migration_version = migration_version
        THEN out(Nil, TRUE)
        ELSE IF pg.conflict = "error" THEN out(Ambiguous("schema_name"), FALSE)
        ELSE IF ~\E s \in schemas : NameMatches(s, schema_name)
        THEN out(<<"Tenant schema does not exist">> \o schema_name, FALSE)
        ELSE IF ns = NoNs THEN out(<<"relation does not exist">>, FALSE)
        ELSE IF sql.cmd = "CREATE TABLE" /\ MigratedIn(app, ns, sql.obj)
        THEN out(<<"relation already exists">>, FALSE)
        ELSE out(Nil, FALSE)

\* Rows and executions written by statements that have not ended yet, other
\* than goroutine w's.
PendingLedger(w) == UNION {wk[u].pendL : u \in Workers \ {w}}
PendingApplied(w) == UNION {wk[u].pendA : u \in Workers \ {w}}

\* The statement of goroutine w has to wait: what it is about to write (the
\* ledger row of (t, v), a table in ns) is written by a statement that has
\* not ended.
MustWait(w, t, v, ns) ==
    \/ \E r \in PendingLedger(w) : r.tenant_id = t /\ r.migration_version = v
    \/ \E a \in PendingApplied(w) : a.ns = ns /\ a.version = v

\* ApplyMigration: entry and validateTenantSchema.
AmValidate(w, t, v, hasRollback) ==
    /\ CanStart(w)
    /\ nops' = nops + 1
    /\ \E c \in Conns : Acquirable(c)
    /\ LET b == [Begin(w, "apply", t) EXCEPT
                    !.v = v, !.rb = RollbackArg(v, hasRollback), !.had = SchemaExists(t),
                    !.par = \E u \in Workers \ {w} : InCall(u)]
       IN  IF validateTenantSchema(t)
           THEN wk' = [wk EXCEPT ![w] = [b EXCEPT !.pc = "amIsApplied"]]
           ELSE wk' = [wk EXCEPT ![w] = [b EXCEPT !.pc = "ret",
                          !.err = Err("tenant schema does not exist for tenant") \o t]]
    /\ UNCHANGED <<conn, schemas, objs, rows, status, aborted>>
    /\ UNCHANGED <<migVars, connections>>

\* ApplyMigration: IsMigrationApplied and the early return of an applied
\* migration.
AmIsApplied(w) ==
    /\ wk[w].pc = "amIsApplied"
    /\ \E c \in Conns : Acquirable(c)
    /\ LET r == IsMigrationApplied(wk[w].t, wk[w].v)
       IN  wk' = [wk EXCEPT ![w] =
                 IF r.err # Nil
                 THEN PvReturn(w, Wrap("failed to check if migration is applied", r.err), FALSE)
                 ELSE IF r.val THEN PvReturn(w, Nil, FALSE)
                 ELSE [wk[w] EXCEPT !.pc = "amApply"]]
    /\ UNCHANGED <<conn, schemas, objs, rows, status, nops, aborted>>
    /\ UNCHANGED <<migVars, connections>>

\* ApplyMigration: "SELECT apply_tenant_migration(...)" on a pooled
\* connection.  The statement commits (SQL executed, row inserted, session
\* path left at public by the function's last SET), or it fails or is
\* cancelled and everything it did is rolled back.
AmApply(w) ==
    /\ wk[w].pc = "amApply"
    /\ \E c \in Conns :
         /\ Acquirable(c)
         /\ LET r == apply_tenant_migration(conn[c], ledger, applied, wk[w].t, wk[w].v)
                mark == [wk[w] EXCEPT !.exec = [NoExec EXCEPT !.c = c, !.path = r.path, !.ns = r.ns]]
            IN  \/ /\ r.err # Nil
                   /\ wk' = [wk EXCEPT ![w] = [mark EXCEPT !.pc = "ret",
                                 !.err = Wrap("migration failed", r.err)]]
                   /\ UNCHANGED <<conn, ledger, applied>>
                \/ /\ r.err = Nil /\ r.skip
                   /\ wk' = [wk EXCEPT ![w] = [wk[w] EXCEPT !.pc = "ret"]]
                   /\ UNCHANGED <<conn, ledger, applied>>
                \/ /\ r.err = Nil /\ ~r.skip
                   /\ ~MustWait(w, wk[w].t, wk[w].v, r.ns)
                   /\ \/ /\ ledger' = ledger \cup {LedgerRow(wk[w].id, wk[w].t, wk[w].v, wk[w].rb)}
                         /\ applied' = applied \cup {Execution(wk[w].id, wk[w].t, wk[w].v, r.ns)}
                         /\ conn' = [conn EXCEPT ![c] =
                                PgSetPath(conn[c], SetPathQuery(Public, FALSE),
                                          "apply_tenant_migration")]
                         /\ wk' = [wk EXCEPT ![w] = [mark EXCEPT !.pc = "ret"]]
                      \/ /\ \E e \in {<<"syntax error in migration">>, <<"context canceled">>} :
                              wk' = [wk EXCEPT ![w] = [mark EXCEPT !.pc = "ret",
                                        !.fault = TRUE, !.err = Wrap("migration failed", e)]]
                         /\ UNCHANGED <<conn, ledger, applied>>
    /\ UNCHANGED <<schemas, objs, rows, status, nops, aborted, pg, connections>>

\* Faulty variant: a migration recorded without rollback SQL is rolled back
\* by deleting its row.
rollback_tenant_migration_NoCheck(cr, led, app, tenant_uuid, migration_version) ==
    [err |-> IF "migration_version" \in pg.ledgerColumns THEN Nil
             ELSE UndefinedColumn("migration_version"),
     path |-> NoPath, ns |-> NoNs, undone |-> {},
     deleted |-> {r \in led : r.tenant_id = tenant_uuid
                              /\ r.migration_version = migration_version}]

\* rollback_tenant_migration(tenant_uuid, migration_version) run on connection
\* record cr by a statement that sees the ledger rows led and the executions
\* app: err: the exception raised; path: the search_path the function sets;
\* ns: where the rollback SQL takes effect; undone: the executions it undoes;
\* deleted: the ledger rows it deletes.
rollback_tenant_migration(cr, led, app, tenant_uuid, migration_version) ==
    LET schema_name == get_tenant_schema_name(tenant_uuid)
        found == {r \in led : r.tenant_id = tenant_uuid
                              /\ r.migration_version = migration_version}
        texts == {r.rollback_sql : r \in found} \ {NullSQL}
        query == SetPathQuery(QuoteIdent(schema_name), FALSE)
        scoped == PgSetPath(cr, query, "rollback_tenant_migration")
        out(err, ns, undone, deleted) ==
            [err |-> err, path |-> ParsePath(query), ns |-> ns,
             undone |-> undone, deleted |-> deleted]
    IN  IF "migration_version" \notin pg.ledgerColumns
        THEN out(UndefinedColumn("migration_version"), NoNs, {}, {})
        ELSE IF texts = {}
        THEN out(<<"No rollback SQL found for migration">>, NoNs, {}, {})
        ELSE LET sql == CHOOSE x \in texts : TRUE
                 ns == MigrationTarget(scoped, sql, app)
             IN  IF ns = NoNs
                 THEN out(<<"table does not exist">>, NoNs, {}, {})
                 ELSE out(Nil, ns,
                          {a \in app : a.ns = ns /\ a.version = migration_version},
                          found)

\* RollbackMigration: entry, IsMigrationApplied and the early return when
\* the migration is not applied.
RbIsApplied(w, t, v) ==
    /\ CanStart(w)
    /\ nops' = nops + 1
    /\ \E c \in Conns : Acquirable(c)
    /\ LET b == [Begin(w, "rollback", t) EXCEPT
                    !.v = v, !.had = SchemaExists(t),
                    !.par = \E u \in Workers \ {w} : InCall(u)]
           r == IsMigrationApplied(t, v)
       IN  wk' = [wk EXCEPT ![w] =
                 IF r.err # Nil
                 THEN [b EXCEPT !.pc = "ret",
                         !.err = Wrap("failed to check if migration is applied", r.err)]
                 ELSE IF ~r.val THEN [b EXCEPT !.pc = "ret"]
                 ELSE [b EXCEPT !.pc = "rbRollback"]]
    /\ UNCHANGED <<conn, schemas, objs, rows, status, aborted>>
    /\ UNCHANGED <<migVars, connections>>

\* RollbackMigration: "SELECT rollback_tenant_migration(...)" on a pooled
\* connection.  The statement commits (rollback SQL executed, row deleted,
\* session path left at public), or it fails or is cancelled and everything
\* it did is rolled back.
RbRollback(w) ==
    /\ wk[w].pc = "rbRollback"
    /\ \E c \in Conns :
         /\ Acquirable(c)
         /\ LET r == rollback_tenant_migration(conn[c], ledger, applied, wk[w].t, wk[w].v)
                mark == [wk[w] EXCEPT !.exec = [NoExec EXCEPT !.c = c, !.path = r.path, !.ns = r.ns]]
            IN  \/ /\ r.err # Nil
                   /\ wk' = [wk EXCEPT ![w] = [mark EXCEPT !.pc = "ret",
                                 !.err = Wrap("rollback failed", r.err)]]
                   /\ UNCHANGED <<conn, ledger, applied>>
                \/ /\ r.err = Nil
                   /\ ~MustWait(w, wk[w].t, wk[w].v, r.ns)
                   /\ \/ /\ ledger' = ledger \ r.deleted
                         /\ applied' = applied \ r.undone
                         /\ conn' = [conn EXCEPT ![c] =
                                PgSetPath(conn[c], SetPathQuery(Public, FALSE),
                                          "rollback_tenant_migration")]
                         /\ wk' = [wk EXCEPT ![w] = [mark EXCEPT !.pc = "ret"]]
                      \/ /\ wk' = [wk EXCEPT ![w] = [mark EXCEPT !.pc = "ret",
                                      !.fault = TRUE,
                                      !.err = Wrap("rollback failed", <<"context canceled">>)]]
                         /\ UNCHANGED <<conn, ledger, applied>>
    /\ UNCHANGED <<schemas, objs, rows, status, nops, aborted, pg, connections>>

\* A fresh pool over any database the functions can be installed in; any set
\* of tenants is provisioned.
InitMig ==
    /\ conn = [c \in Conns |-> FreshConn]
    /\ \E P \in SUBSET TenantIDs :
         /\ schemas = {Public} \cup {GetSchemaName(t) : t \in P}
         /\ objs = {<<GetSchemaName(t), o>> : t \in P, o \in TenantObjects}
         /\ status = [t \in TenantIDs |-> IF t \in P THEN "active" ELSE "pending"]
    /\ rows = {}
    /\ wk = [w \in Workers |-> IdleWorker]
    /\ nops = 0
    /\ connections = NewManager.connections
    /\ aborted = {}
    /\ pg \in PgEnvs
    /\ ledger = {}
    /\ applied = {}

NextMig ==
    \E w \in Workers :
       \/ \E t \in TenantIDs, v \in Versions, hasRollback \in BOOLEAN :
             AmValidate(w, t, v, hasRollback)
       \/ AmIsApplied(w)
       \/ AmApply(w)
       \/ Return(w)

SpecMig == InitMig /\ [][NextMig]_vars

----------------------------------------------------------------------------
(* ApplyToAllTenants: "SELECT apply_migration_to_all_tenants(...)", one
   statement in one server transaction on one pooled connection.  Its loop
   runs apply_tenant_migration for one tenant after the other, each inside a
   block with an exception handler. *)

\* Faulty variant: the loop ends at the first tenant that fails.
Remaining_Halt(todo, t, hasFailed) == IF hasFailed THEN {} ELSE todo \ {t}

\* The tenants left to visit after tenant t: the handler (EXCEPTION WHEN
\* OTHERS) takes note of a failure and the loop goes on.
Remaining(todo, t, hasFailed) == todo \ {t}

\* Faulty variant: the function reports success whatever the loop counted.
RaisesAtEnd_Never(failed) == FALSE

\* IF error_count > 0 THEN RAISE EXCEPTION
RaisesAtEnd(failed) == Cardinality(failed) > 0

Range(seq) == {seq[i] : i \in 1..Len(seq)}

\* ApplyToAllTenants: the statement starts on a pooled connection and its
\* loop query reads the tenants whose status is active.
AaStart(w, v, hasRollback) ==
    /\ CanStart(w)
    /\ nops' = nops + 1
    /\ \E c \in Conns :
         /\ Acquirable(c)
         /\ conn' = [conn EXCEPT ![c] = PgBegin([conn[c] EXCEPT !.owner = w])]
         /\ LET act == {t \in TenantIDs : status[t] = "active"}
            IN  wk' = [wk EXCEPT ![w] = [Begin(w, "applyAll", NoTenant) EXCEPT
                          !.pc = "aaLoop", !.c = c, !.v = v,
                          !.rb = RollbackArg(v, hasRollback),
                          !.active = act, !.todo = act,
                          !.par = \E u \in Workers \ {w} : InCall(u)]]
    /\ UNCHANGED <<schemas, objs, rows, status, aborted>>
    /\ UNCHANGED <<migVars, connections>>

\* One pass of the loop: PERFORM apply_tenant_migration for the next tenant.
\* What the pass wrote is undone if it raises, and is part of the
\* statement's transaction if it does not.
AaTenant(w) ==
    /\ wk[w].pc = "aaLoop"
    /\ \E t \in wk[w].todo :
         LET c == wk[w].c
             r == apply_tenant_migration(conn[c], ledger \cup wk[w].pendL,
                                         applied \cup wk[w].pendA, t, wk[w].v)
             visited(hasFailed) ==
                 [wk[w] EXCEPT !.todo = Remaining(wk[w].todo, t, hasFailed),
                               !.tried = Append(wk[w].tried, t),
                               !.failed = IF hasFailed THEN wk[w].failed \cup {t}
                                          ELSE wk[w].failed]
         IN  \/ /\ r.err # Nil
                /\ wk' = [wk EXCEPT ![w] = visited(TRUE)]
                /\ conn' = conn
             \/ /\ r.err = Nil /\ r.skip
                /\ wk' = [wk EXCEPT ![w] = visited(FALSE)]
                /\ conn' = conn
             \/ /\ r.err = Nil /\ ~r.skip
                /\ ~MustWait(w, t, wk[w].v, r.ns)
                /\ \/ /\ wk' = [wk EXCEPT ![w] = [visited(FALSE) EXCEPT
                                   !.pendL = wk[w].pendL \cup
                                             {LedgerRow(wk[w].id, t, wk[w].v, wk[w].rb)},
                                   !.pendA = wk[w].pendA \cup
                                             {Execution(wk[w].id, t, wk[w].v, r.ns)}]]
                      /\ conn' = [conn EXCEPT ![c] =
                             PgSetPath(conn[c], SetPathQuery(Public, FALSE),
                                       "apply_tenant_migration")]
                   \/ /\ wk' = [wk EXCEPT ![w] = visited(TRUE)]
                      /\ conn' = conn
    /\ UNCHANGED <<schemas, objs, rows, status, nops, aborted>>
    /\ UNCHANGED <<migVars, connections>>

\* The end of the loop: the function raises if a tenant failed, which
\* aborts the statement and its transaction; otherwise the statement
\* commits.  A cancelled context aborts it as well.
AaFinish(w) ==
    /\ wk[w].pc = "aaLoop"
    /\ wk[w].todo = {}
    /\ LET c == wk[w].c
           done == [wk[w] EXCEPT !.pc = "ret", !.c = None, !.pendL = {}, !.pendA = {}]
       IN  \/ /\ RaisesAtEnd(wk[w].failed)
              /\ conn' = [conn EXCEPT ![c] = Release(PgRollback(conn[c]))]
              /\ wk' = [wk EXCEPT ![w] = [done EXCEPT
                            !.err = Wrap("bulk migration failed",
                                         <<"Migration completed with errors">>)]]
              /\ UNCHANGED <<ledger, applied>>
           \/ /\ ~RaisesAtEnd(wk[w].failed)
              /\ conn' = [conn EXCEPT ![c] = Release(PgCommit(conn[c]))]
              /\ ledger' = ledger \cup wk[w].pendL
              /\ applied' = applied \cup wk[w].pendA
              /\ wk' = [wk EXCEPT ![w] = done]
           \/ /\ conn' = [conn EXCEPT ![c] = Release(PgRollback(conn[c]))]
              /\ wk' = [wk EXCEPT ![w] = [done EXCEPT !.fault = TRUE,
                            !.err = Wrap("bulk migration failed", <<"context canceled">>)]]
              /\ UNCHANGED <<ledger, applied>>
    /\ UNCHANGED <<schemas, objs, rows, status, nops, aborted, pg, connections>>

NextAll ==
    \E w \in Workers :
       \/ \E v \in Versions, hasRollback \in BOOLEAN : AaStart(w, v, hasRollback)
       \/ AaTenant(w)
       \/ AaFinish(w)
       \/ \E t \in TenantIDs : DeleteTenant(w, t)
       \/ Return(w)

SpecAll == InitMig /\ [][NextAll]_vars

----------------------------------------------------------------------------
(* RollbackMigration on what earlier calls applied *)

\* The functions run in the database: it has pgcrypto, the ledger table in
\* the form they expect, and a setting under which their queries compile.
FunctionsRun(env) ==
    /\ env.pgcrypto
    /\ env.ledgerColumns = FunctionLedgerColumns
    /\ env.conflict # "error"

\* What earlier ApplyMigration calls can have left: nothing, or (where the
\* functions run) version 001 recorded for one tenant, with or without
\* rollback SQL, and its table in public.
AppliedEarlier(env) ==
    {[ledger |-> {}, applied |-> {}]} \cup
    {[ledger |-> {LedgerRow(0, t, "001", RollbackArg("001", hasRollback))},
      applied |-> {Execution(0, t, "001", Public)}] :
        t \in {x \in TenantIDs : FunctionsRun(env)}, hasRollback \in BOOLEAN}

\* Rolling back migrations that earlier calls applied.
InitRollback ==
    /\ conn = [c \in Conns |-> FreshConn]
    /\ \E P \in SUBSET TenantIDs :
         /\ schemas = {Public} \cup {GetSchemaName(t) : t \in P}
         /\ objs = {<<GetSchemaName(t), o>> : t \in P, o \in TenantObjects}
         /\ status = [t \in TenantIDs |-> IF t \in P THEN "active" ELSE "pending"]
    /\ rows = {}
    /\ wk = [w \in Workers |-> IdleWorker]
    /\ nops = 0
    /\ connections = NewManager.connections
    /\ aborted = {}
    /\ pg \in PgEnvs
    /\ \E e \in AppliedEarlier(pg) : ledger = e.ledger /\ applied = e.applied

NextRollback ==
    \E w \in Workers :
       \/ \E t \in TenantIDs, v \in Versions : RbIsApplied(w, t, v)
       \/ RbRollback(w)
       \/ Return(w)

SpecRollback == InitRollback /\ [][NextRollback]_vars

----------------------------------------------------------------------------
(* The ledger under every operation: migrations applied, applied to all
   tenants and rolled back, tenants provisioned, suspended and deleted,
   namespaces dropped *)

InitLedger ==
    /\ InitRollback
    /\ FunctionsRun(pg)

\* No other goroutine is inside a call or has yet to take note of what its
\* call returned.
Alone(w) == \A u \in Workers \ {w} : wk[u].pc = "idle"

\* Calls of every kind, one at a time.
NextLedger ==
    \E w \in Workers :
       \/ Alone(w) /\ \E t \in TenantIDs, v \in Versions, hasRollback \in BOOLEAN :
                          AmValidate(w, t, v, hasRollback)
       \/ Alone(w) /\ \E v \in Versions, hasRollback \in BOOLEAN :
                          AaStart(w, v, hasRollback)
       \/ Alone(w) /\ \E t \in TenantIDs, v \in Versions : RbIsApplied(w, t, v)
       \/ Alone(w) /\ \E t \in TenantIDs : PvGetByID(w, t)
       \/ Alone(w) /\ \E t \in TenantIDs : SuspendTenant(w, t)
       \/ Alone(w) /\ \E t \in TenantIDs : DeleteTenant(w, t)
       \/ Alone(w) /\ \E t \in TenantIDs : ScDrop(w, t)
       \/ AmIsApplied(w)
       \/ AmApply(w)
       \/ AaTenant(w)
       \/ AaFinish(w)
       \/ RbRollback(w)
       \/ PvSchemaExists(w)
       \/ CsBegin(w)
       \/ CsCreateSchema(w)
       \/ CsSetPath(w)
       \/ CsTables(w)
       \/ CsTriggers(w)
       \/ CsCommit(w)
       \/ PvUpdate(w)
       \/ PvDrop(w)
       \/ Return(w)

SpecLedger == InitLedger /\ [][NextLedger]_vars

----------------------------------------------------------------------------
(* SchemaManager.GetSchemaName on tenant IDs as the callers hold them *)

HexDigits == <<"0", "1", "2", "3", "4", "5", "6", "7",
               "8", "9", "a", "b", "c", "d", "e", "f">>

\* encoding/hex of one byte: two lower-case digits.
HexByte(b) == <<HexDigits[(b \div 16) + 1], HexDigits[(b % 16) + 1]>>

RECURSIVE HexEncode(_, _, _)
HexEncode(u, from, to) ==
    IF from > to THEN <<>> ELSE HexByte(u[from]) \o HexEncode(u, from + 1, to)

\* uuid.UUID.String(): the 16 bytes as xxxxxxxx-xxxx-xxxx-xxxx-xxxxxxxxxxxx.
String(u) ==
    HexEncode(u, 1, 4) \o <<"-">> \o HexEncode(u, 5, 6) \o <<"-">> \o
    HexEncode(u, 7, 8) \o <<"-">> \o HexEncode(u, 9, 10) \o <<"-">> \o
    HexEncode(u, 11, 16)

\* The bytes that vary among the tenant IDs of the calls, and the places
\* where they vary: the last byte of the first group and the first byte of
\* the second.
ByteValues == {0, 10, 160, 255}
UUIDs ==
    {[i \in 1..16 |-> IF i = 4 THEN x ELSE IF i = 5 THEN y ELSE 0] :
        x \in ByteValues, y \in ByteValues}

\* A caller asks for the schema name of tenant ID u.
SnGetSchemaName(w, u) ==
    /\ CanStart(w)
    /\ nops' = nops + 1
    /\ wk' = [wk EXCEPT ![w] = [Begin(w, "name", u) EXCEPT
                  !.pc = "ret", !.name = GetSchemaName(String(u))]]
    /\ UNCHANGED <<conn, schemas, objs, rows, status, aborted>>
    /\ UNCHANGED <<migVars, connections>>

NextName ==
    \E w \in Workers :
       \/ \E u \in UUIDs : SnGetSchemaName(w, u)
       \/ Return(w)

SpecName == InitRollback /\ [][NextName]_vars

----------------------------------------------------------------------------
(* The router together with manager.Close *)

\* manager.Close: conn.Close() on every handle in m.connections (a failure
\* is logged and the loop goes on); the pool m.db is not closed; returns nil.
Close(w) ==
    /\ CanStart(w)
    /\ nops' = nops + 1
    /\ wk' = [wk EXCEPT ![w] = [Begin(w, "close", NoTenant) EXCEPT
                  !.pc = "ret", !.seen = {e[1] : e \in connections}]]
    /\ UNCHANGED <<conn, schemas, objs, rows, status, aborted>>
    /\ UNCHANGED <<migVars, connections>>

NextRouter ==
    \/ Next
    \/ \E w \in Workers : Close(w)

SpecRouter == Init /\ [][NextRouter]_vars

----------------------------------------------------------------------------
(* Concurrent ApplyMigration calls: the statement
   "SELECT apply_tenant_migration(...)" as the server runs it, from its
   checks to its commit, next to the statements of other calls *)

\* The statement starts on a pooled connection: the function checks the
\* ledger and the namespace as committed at that moment, then runs the
\* migration's SQL and the INSERT.  It has to wait where another statement
\* that has not ended wrote the same table or ledger row.
AmExecute(w) ==
    /\ wk[w].pc = "amApply"
    /\ \E c \in Conns :
         /\ Acquirable(c)
         /\ LET r == apply_tenant_migration(conn[c], ledger, applied, wk[w].t, wk[w].v)
                mark == [wk[w] EXCEPT !.exec = [NoExec EXCEPT !.c = c, !.path = r.path, !.ns = r.ns]]
            IN  \/ /\ r.err # Nil
                   /\ wk' = [wk EXCEPT ![w] = [mark EXCEPT !.pc = "ret",
                                 !.err = Wrap("migration failed", r.err)]]
                   /\ conn' = conn
                \/ /\ r.err = Nil /\ r.skip
                   /\ wk' = [wk EXCEPT ![w] = [wk[w] EXCEPT !.pc = "ret"]]
                   /\ conn' = conn
                \/ /\ r.err = Nil /\ ~r.skip
                   /\ conn' = [conn EXCEPT ![c] = [PgBegin(@) EXCEPT !.owner = w]]
                   /\ wk' = [wk EXCEPT ![w] =
                          IF MustWait(w, wk[w].t, wk[w].v, r.ns)
                          THEN [mark EXCEPT !.pc = "amBlocked", !.c = c]
                          ELSE [mark EXCEPT !.pc = "amCommit", !.c = c,
                                  !.pendL = {LedgerRow(wk[w].id, wk[w].t, wk[w].v, wk[w].rb)},
                                  !.pendA = {Execution(wk[w].id, wk[w].t, wk[w].v, r.ns)}]]
    /\ UNCHANGED <<schemas, objs, rows, status, nops, aborted>>
    /\ UNCHANGED <<migVars, connections>>

\* The statement it waited for has ended.  If that one committed, the
\* migration's CREATE TABLE finds the table there, or the INSERT finds the
\* (tenant, version) row there, and the function raises; if it was rolled
\* back, the function goes on.
AmUnblock(w) ==
    /\ wk[w].pc = "amBlocked"
    /\ ~MustWait(w, wk[w].t, wk[w].v, wk[w].exec.ns)
    /\ LET c == wk[w].c
           sql == MigrationSQL(wk[w].v)
           fail(e) == /\ conn' = [conn EXCEPT ![c] = Release(PgRollback(conn[c]))]
                      /\ wk' = [wk EXCEPT ![w] = [wk[w] EXCEPT !.pc = "ret", !.c = None,
                                    !.err = Wrap("migration failed", e)]]
       IN  IF sql.cmd = "CREATE TABLE" /\ MigratedIn(applied, wk[w].exec.ns, sql.obj)
           THEN fail(<<"relation already exists">>)
           ELSE IF \E r \in ledger : r.tenant_id = wk[w].t /\ r.migration_version = wk[w].v
           THEN fail(<<"duplicate key value violates unique constraint">>)
           ELSE /\ conn' = conn
                /\ wk' = [wk EXCEPT ![w] = [wk[w] EXCEPT !.pc = "amCommit",
                              !.pendL = {LedgerRow(wk[w].id, wk[w].t, wk[w].v, wk[w].rb)},
                              !.pendA = {Execution(wk[w].id, wk[w].t, wk[w].v, wk[w].exec.ns)}]]
    /\ UNCHANGED <<schemas, objs, rows, status, nops, aborted>>
    /\ UNCHANGED <<migVars, connections>>

\* The statement ends: it commits what it wrote (the function's last SET
\* leaves the session path at public), or the context is cancelled and
\* everything is rolled back.
AmCommit(w) ==
    /\ wk[w].pc = "amCommit"
    /\ LET c == wk[w].c
           done == [wk[w] EXCEPT !.pc = "ret", !.c = None, !.pendL = {}, !.pendA = {}]
       IN  \/ /\ ledger' = ledger \cup wk[w].pendL
              /\ applied' = applied \cup wk[w].pendA
              /\ conn' = [conn EXCEPT ![c] =
                     Release(PgCommit(PgSetPath(conn[c], SetPathQuery(Public, FALSE),
                                                "apply_tenant_migration")))]
              /\ wk' = [wk EXCEPT ![w] = done]
           \/ /\ UNCHANGED <<ledger, applied>>
              /\ conn' = [conn EXCEPT ![c] = Release(PgRollback(conn[c]))]
              /\ wk' = [wk EXCEPT ![w] = [done EXCEPT !.fault = TRUE,
                            !.err = Wrap("migration failed", <<"context canceled">>)]]
    /\ UNCHANGED <<schemas, objs, rows, status, nops, aborted, pg, connections>>

\* Concurrent calls in a database where the functions run.
InitRace ==
    /\ InitMig
    /\ FunctionsRun(pg)

NextRace ==
    \E w \in Workers :
       \/ \E t \in TenantIDs, v \in Versions, hasRollback \in BOOLEAN :
             AmValidate(w, t, v, hasRollback)
       \/ AmIsApplied(w)
       \/ AmExecute(w)
       \/ AmUnblock(w)
       \/ AmCommit(w)
       \/ Return(w)

SpecRace == InitRace /\ [][NextRace]_vars

----------------------------------------------------------------------------
(* The tenant lifecycle: CreateTenant, ProvisionTenant, ActivateTenant,
   SuspendTenant and DeleteTenant on tenants that start without a record or
   created and not yet provisioned *)

\* No row in the tenants table.
NoRecord == "none"

\* models.ValidateStatus
ValidateStatus(st) == st \in {"active", "suspended", "pending", "cancelled"}

\* What the caller of CreateTenant puts into tenant.Status: nothing, or a
\* status.
GivenStatuses == {"", "pending", "active"}

\* CreateTenant: validateTenant, the default status pending when none is
\* given, Repository.Create (an INSERT, which fails on an ID that has a row).
CreateTenant(w, t, st) ==
    /\ CanStart(w)
    /\ nops' = nops + 1
    /\ \E c \in Conns : Acquirable(c)
    /\ LET b == Begin(w, "createTenant", t)
           given == IF st = "" THEN "pending" ELSE st
       IN  IF st # "" /\ ~ValidateStatus(st)
           THEN /\ status' = status
                /\ wk' = [wk EXCEPT ![w] = [b EXCEPT !.pc = "ret",
                              !.err = Wrap("validation failed", Err("invalid status"))]]
           ELSE IF status[t] # NoRecord
           THEN /\ status' = status
                /\ wk' = [wk EXCEPT ![w] = [b EXCEPT !.pc = "ret",
                              !.err = Wrap("failed to create tenant",
                                           Wrap("failed to create tenant", Err("duplicate key")))]]
           ELSE \/ /\ status' = [status EXCEPT ![t] = given]
                   /\ wk' = [wk EXCEPT ![w] = [b EXCEPT !.pc = "ret"]]
                \/ /\ status' = status
                   /\ wk' = [wk EXCEPT ![w] = [b EXCEPT !.pc = "ret", !.fault = TRUE,
                                 !.err = Wrap("failed to create tenant",
                                              Wrap("failed to create tenant", Err("driver error")))]]
    /\ UNCHANGED <<conn, schemas, objs, rows, aborted>>
    /\ UNCHANGED <<migVars, connections>>

\* ActivateTenant: GetByID, then Update with the status set to active.
ActivateTenant(w, t) ==
    /\ CanStart(w)
    /\ nops' = nops + 1
    /\ \E c \in Conns : Acquirable(c)
    /\ \/ /\ status' = [status EXCEPT ![t] = "active"]
          /\ wk' = [wk EXCEPT ![w] = [Begin(w, "activate", t) EXCEPT !.pc = "ret"]]
       \/ /\ status' = status
          /\ wk' = [wk EXCEPT ![w] = [Begin(w, "activate", t) EXCEPT !.pc = "ret", !.fault = TRUE,
                        !.err = Wrap("failed to activate tenant", Err("driver error"))]]
    /\ UNCHANGED <<conn, schemas, objs, rows, aborted>>
    /\ UNCHANGED <<migVars, connections>>

\* The tenants that have a row: GetByID finds them.  A call for any other ID
\* fails at GetByID (or updates no row) and changes nothing.
Registered == {t \in TenantIDs : status[t] # NoRecord}

InitLife ==
    /\ conn = [c \in Conns |-> FreshConn]
    /\ schemas = {Public}
    /\ objs = {}
    /\ rows = {}
    /\ status \in [TenantIDs -> {NoRecord, "pending"}]
    /\ wk = [w \in Workers |-> IdleWorker]
    /\ nops = 0
    /\ connections = NewManager.connections
    /\ aborted = {}
    /\ NoMigrations

NextLife ==
    \E w \in Workers :
       \/ \E t \in TenantIDs, st \in GivenStatuses : CreateTenant(w, t, st)
       \/ \E t \in Registered : PvGetByID(w, t)
       \/ PvSchemaExists(w)
       \/ CsBegin(w)
       \/ CsCreateSchema(w)
       \/ CsWait(w)
       \/ CsSetPath(w)
       \/ CsTables(w)
       \/ CsTriggers(w)
       \/ CsCommit(w)
       \/ PvUpdate(w)
       \/ PvDrop(w)
       \/ \E t \in Registered : ActivateTenant(w, t)
       \/ \E t \in Registered : SuspendTenant(w, t)
       \/ \E t \in Registered : DeleteTenant(w, t)
       \/ Return(w)

SpecLife == InitLife /\ [][NextLife]_vars

----------------------------------------------------------------------------
(* The resolver: ResolveTenant under the subdomain, path and header
   strategies.  A string is the sequence of its characters. *)

MinSubdomainLen == 3
MaxSubdomainLen == 50

LowerLetters ==
    {"a", "b", "c", "d", "e", "f", "g", "h", "i", "j", "k", "l", "m",
     "n", "o", "p", "q", "r", "s", "t", "u", "v", "w", "x", "y", "z"}

Digits == {"0", "1", "2", "3", "4", "5", "6", "7", "8", "9"}

\* unicode.ToLower on the characters of the model.
Lower(ch) == IF ch = "A" THEN "a" ELSE ch

ToLower(s) == [i \in 1..Len(s) |-> Lower(s[i])]

\* strings.EqualFold
EqualFold(a, b) == ToLower(a) = ToLower(b)

\* strings.Index for a one-character separator: the first position, 0 when
\* there is none (Go: -1).
Index(s, ch) ==
    IF \E i \in 1..Len(s) : s[i] = ch
    THEN CHOOSE i \in 1..Len(s) : s[i] = ch /\ \A j \in 1..(i - 1) : s[j] # ch
    ELSE 0

\* strings.Split for a one-character separator.
RECURSIVE Split(_, _)
Split(s, sep) ==
    LET i == Index(s, sep)
    IN  IF i = 0
        THEN <<s>>
        ELSE <<SubSeq(s, 1, i - 1)>> \o Split(SubSeq(s, i + 1, Len(s)), sep)

\* strings.HasPrefix and strings.TrimPrefix
HasPrefix(s, p) == Len(s) >= Len(p) /\ SubSeq(s, 1, Len(p)) = p

TrimPrefix(s, p) == IF HasPrefix(s, p) THEN SubSeq(s, Len(p) + 1, Len(s)) ELSE s

\* regexp `^[a-z0-9][a-z0-9-]*[a-z0-9]$`
MatchString(s) ==
    /\ Len(s) >= 2
    /\ s[1] \in LowerLetters \cup Digits
    /\ s[Len(s)] \in LowerLetters \cup Digits
    /\ \A i \in 2..(Len(s) - 1) : s[i] \in LowerLetters \cup Digits \cup {"-"}

\* ValidateSubdomain with the reserved-word loop left out.
ValidateSubdomain_Format(cfg, subdomain) ==
    IF Len(subdomain) < MinSubdomainLen \/ Len(subdomain) > MaxSubdomainLen
    THEN Err("subdomain must be between 3 and 50 characters")
    ELSE IF ~MatchString(subdomain)
    THEN Err("subdomain must contain only lowercase letters, numbers, and hyphens, and cannot start or end with a hyphen")
    ELSE Nil

\* resolver.ValidateSubdomain: the error, Nil when the subdomain is valid.
ValidateSubdomain(cfg, subdomain) ==
    IF Len(subdomain) < MinSubdomainLen \/ Len(subdomain) > MaxSubdomainLen
    THEN Err("subdomain must be between 3 and 50 characters")
    ELSE IF ~MatchString(subdomain)
    THEN Err("subdomain must contain only lowercase letters, numbers, and hyphens, and cannot start or end with a hyphen")
    ELSE IF \E reserved \in cfg.ReservedSubdomain : EqualFold(subdomain, reserved)
    THEN Err("subdomain is reserved")
    ELSE Nil

\* The (subdomain, error) pair an extraction returns.
Extracted(subdomain) == [subdomain |-> subdomain, err |-> Nil]
Rejected(err) == [subdomain |-> <<>>, err |-> err]

Validated(cfg, subdomain) ==
    IF ValidateSubdomain(cfg, subdomain) # Nil
    THEN Rejected(Wrap("invalid subdomain", ValidateSubdomain(cfg, subdomain)))
    ELSE Extracted(subdomain)

\* resolver.ExtractFromSubdomain
ExtractFromSubdomain(cfg, host) ==
    IF host = <<>>
    THEN Rejected(Err("empty host"))
    ELSE LET colonIndex == Index(host, ":")
             h == IF colonIndex # 0 THEN SubSeq(host, 1, colonIndex - 1) ELSE host
             parts == Split(h, ".")
         IN  IF Len(parts) < 3
             THEN Rejected(Err("invalid host format"))
             ELSE IF \E reserved \in cfg.ReservedSubdomain : EqualFold(parts[1], reserved)
             THEN Rejected(Err("reserved subdomain"))
             ELSE Validated(cfg, parts[1])

DefaultPathPrefix == <<"/", "t", "e", "n", "a", "n", "t", "/">>

\* resolver.ExtractFromPath
ExtractFromPath(cfg, path) ==
    IF path = <<>>
    THEN Rejected(Err("empty path"))
    ELSE LET prefix == IF cfg.PathPrefix = <<>> THEN DefaultPathPrefix ELSE cfg.PathPrefix
         IN  IF ~HasPrefix(path, prefix)
             THEN Rejected(Err("path does not start with tenant prefix"))
             ELSE LET parts == Split(TrimPrefix(path, prefix), "/")
                  IN  IF Len(parts) = 0 \/ parts[1] = <<>>
                      THEN Rejected(Err("no tenant found in path"))
                      ELSE Validated(cfg, parts[1])

\* resolver.ExtractFromHeader
ExtractFromHeader(cfg, req) ==
    LET headerName == IF cfg.HeaderName = "" THEN "X-Tenant" ELSE cfg.HeaderName
        subdomain == req.Header[headerName]
    IN  IF subdomain = <<>>
        THEN Rejected(Err("no tenant header found"))
        ELSE Validated(cfg, subdomain)

\* The subdomain column of the tenants table.
SubdomainOf(t) ==
    IF t = <<"a", "-", "1">> THEN <<"a", "-", "a">> ELSE <<"a", "a", "a">>

\* The error ResolveTenant returns when GetBySubdomain returns one.
TenantNotFound == Err("tenant not found for subdomain")

Strategies == {"subdomain", "path", "header"}

\* ResolveTenant up to the repository call: the strategy switch and the
\* extraction.
ResolveTenant(w, cfg, req) ==
    /\ CanStart(w)
    /\ Alone(w)
    /\ nops' = nops + 1
    /\ LET b == [Begin(w, "resolve", NoTenant) EXCEPT !.cfg = cfg, !.req = req]
           x == IF cfg.Strategy = "subdomain" THEN ExtractFromSubdomain(cfg, req.Host)
                ELSE IF cfg.Strategy = "path" THEN ExtractFromPath(cfg, req.Path)
                ELSE ExtractFromHeader(cfg, req)
       IN  IF cfg.Strategy \notin Strategies
           THEN wk' = [wk EXCEPT ![w] = [b EXCEPT !.pc = "ret",
                            !.err = Err("unknown resolver strategy")]]
           ELSE IF x.err # Nil
           THEN wk' = [wk EXCEPT ![w] = [b EXCEPT !.pc = "ret", !.err = x.err]]
           ELSE wk' = [wk EXCEPT ![w] = [b EXCEPT !.pc = "rtLookup",
                            !.subdomain = x.subdomain]]
    /\ UNCHANGED <<conn, schemas, objs, rows, status, aborted>>
    /\ UNCHANGED <<migVars, connections>>

\* ResolveTenant from the repository call on: GetBySubdomain finds the
\* tenant, finds no row, or fails.
RtGetBySubdomain(w) ==
    /\ wk[w].pc = "rtLookup"
    /\ LET found == {t \in TenantIDs : SubdomainOf(t) = wk[w].subdomain}
       IN  \/ /\ found # {}
              /\ \E t \in found :
                    wk' = [wk EXCEPT ![w].pc = "ret", ![w].looked = TRUE, ![w].t = t,
                              ![w].log = Append(@, Debug("Resolved tenant"))]
           \/ /\ found = {}
              /\ wk' = [wk EXCEPT ![w].pc = "ret", ![w].looked = TRUE,
                           ![w].err = TenantNotFound,
                           ![w].log = Append(@, Debug("Failed to find tenant by subdomain"))]
           \/ wk' = [wk EXCEPT ![w].pc = "ret", ![w].looked = TRUE,
                        ![w].fault = TRUE, ![w].err = TenantNotFound,
                        ![w].log = Append(@, Debug("Failed to find tenant by subdomain"))]
    /\ UNCHANGED <<conn, schemas, objs, rows, status, nops, aborted>>
    /\ UNCHANGED <<migVars, connections>>

\* The candidate strings of the requests: every string of up to three
\* characters over CandidateChars, and strings around the length limit.
CandidateChars == {"a", "A", "0", "-", ".", "/"}

ShortCandidates == UNION {[1..n -> CandidateChars] : n \in 0..3}

Repeat(ch, n) == [i \in 1..n |-> ch]

LongCandidates ==
    {Repeat("a", 49), Repeat("a", 50), Repeat("a", 51),
     <<"-">> \o Repeat("a", 49), Repeat("a", 49) \o <<"-">>,
     Repeat("a", 24) \o <<"-">> \o Repeat("0", 25),
     Repeat("a", 49) \o <<"A">>}

Candidates == ShortCandidates \cup LongCandidates

Domain == <<".", "d", ".", "c">>

HostRequests ==
    {[NoRequest EXCEPT !.Host = h] :
        h \in UNION {{s, s \o Domain, s \o Domain \o <<":", "8">>} : s \in Candidates}}

PathRequests ==
    {[NoRequest EXCEPT !.Path = p] :
        p \in UNION {{s, <<"/", "t", "/">> \o s, <<"/", "t", "/">> \o s \o <<"/", "x">>,
                      DefaultPathPrefix \o s} : s \in Candidates}}

HeaderRequests ==
    {[NoRequest EXCEPT !.Header[h] = s] : h \in HeaderNames, s \in Candidates}

ReservedSets == {{}, {<<"a", "0", "a">>, <<"A", "A", "A">>}}

Configs(strategy) ==
    {[Strategy |-> strategy, HeaderName |-> pf[1], PathPrefix |-> pf[2],
      ReservedSubdomain |-> rs] :
        pf \in {<<"", <<>>>>, <<"X-Org", <<"/", "t", "/">>>>},
        rs \in ReservedSets}

\* The calls: a resolver configuration and a request that carries a
\* candidate where the strategy looks for it (the empty candidate leaves
\* the place empty), and one call under a strategy that does not exist.
Calls ==
    (Configs("subdomain") \X HostRequests)
    \cup (Configs("path") \X PathRequests)
    \cup (Configs("header") \X HeaderRequests)
    \cup (Configs("unknown") \X {NoRequest})

InitResolve ==
    /\ conn = [c \in Conns |-> FreshConn]
    /\ Provisioned

NextResolve ==
    \E w \in Workers :
       \/ CanStart(w) /\ Alone(w) /\ \E call \in Calls : ResolveTenant(w, call[1], call[2])
       \/ RtGetBySubdomain(w)
       \/ Return(w)

SpecResolve == InitResolve /\ [][NextResolve]_vars

----------------------------------------------------------------------------
(* Properties *)

InFlightPcs == TxLivePcs \cup {"gcSet"} \cup HoldPcs

\* fn of w's WithTenantTx call has read the table back.
ReadBack(w) ==
    /\ wk[w].kind = "tx"
    /\ \/ wk[w].pc = "txCommit"
       \/ /\ wk[w].pc = "ret"
          /\ \/ wk[w].err = Nil
             \/ wk[w].fnErr \in FnErrs
             \/ Head(wk[w].err) = "failed to commit transaction"

\* C1: concurrent WithTenantTx calls for pairwise distinct provisioned
\* tenants: every call that inserted its tagged row and read the table back
\* saw exactly its own row, whatever connection it got and whatever session
\* path that connection carried.
C1_TxSeesOnlyOwnRow ==
    \A w \in Workers : ReadBack(w) => wk[w].seen = {Tag(w)}

\* Both calls ran side by side, each on a connection carrying the other
\* tenant's session path, and both have read back.
C1_Witness ==
    \E w, v \in Workers :
       /\ w # v
       /\ wk[w].pc = "txCommit" /\ wk[v].pc = "txCommit"
       /\ wk[w].pre = TenantPath(wk[v].t)
       /\ wk[v].pre = TenantPath(wk[w].t)

\* w can execute SQL as its tenant: it owns a connection GetTenantConn
\* returned, or its fn runs inside a live WithTenantTx transaction.
ExecutesAsTenant(w) ==
    \/ wk[w].pc \in HoldPcs
    \/ wk[w].pc \in FnPcs /\ ~wk[w].cancelled

\* C2: while a unit of work runs as tenant T through GetTenantConn or
\* WithTenantTx, its connection resolves names through exactly
\* [schema(T), public], every statement it executed ran under that path, and
\* no other in-flight call is on that connection.
C2_PathIsTenantsDuringWork ==
    \A w \in Workers :
       /\ ExecutesAsTenant(w) =>
            /\ conn[wk[w].c].owner = w
            /\ EffPath(conn[wk[w].c]) = TenantPath(wk[w].t)
            /\ \A v \in Workers \ {w} : wk[v].pc \in InFlightPcs => wk[v].c # wk[w].c
       /\ (wk[w].kind \in {"conn", "tx"} /\ wk[w].exec # NoExec) =>
            /\ wk[w].exec.path = TenantPath(wk[w].t)
            /\ wk[w].exec.c = wk[w].c

\* A holder and a transaction work side by side for different tenants, each
\* having executed a statement.
C2_Witness ==
    \E w, v \in Workers :
       /\ wk[w].pc = "hold2" /\ wk[v].pc = "fn2" /\ ~wk[v].cancelled
       /\ wk[w].t # wk[v].t
       /\ wk[w].exec # NoExec /\ wk[v].exec # NoExec

\* C3 (as claimed): a connection released by a GetTenantConn caller no
\* longer carries that tenant's search_path when it next serves another
\* tenant's work or untenanted work.
C3_ReleasedPathIsGone ==
    \A w \in Workers :
       (wk[w].kind \in {"pool", "db", "tx"} /\ wk[w].exec # NoExec) =>
          ~(/\ wk[w].exec.setBy = "GetTenantConn"
            /\ wk[w].exec.session # TenantPath(wk[w].t))

\* C4: when WithTenantTx returns, on any exit, the connection it used went
\* back to the pool with the session search_path it had when acquired, with
\* no transaction open and no transaction-local path left.
C4_TxLeavesSessionPathAsFound ==
    \A w \in Workers :
       (wk[w].kind = "tx" /\ wk[w].pc = "ret" /\ wk[w].c # None) =>
          /\ wk[w].rel.session = wk[w].pre
          /\ wk[w].rel.txLocal = NoPath
          /\ ~wk[w].rel.inTx

\* A committed call that ran on a connection carrying another tenant's
\* session path.
C4_Witness ==
    \E w \in Workers :
       /\ wk[w].kind = "tx" /\ wk[w].pc = "ret" /\ wk[w].err = Nil
       /\ wk[w].pre \notin {DefaultPath, TenantPath(wk[w].t)}

\* v executes a statement in this step.
StmtStep(v) ==
    \/ wk[v].pc \in {"fn1", "fn2", "hold1", "hold2", "db1", "db2"} /\ wk'[v].pc # wk[v].pc
    \/ wk[v].pc = "idle" /\ wk'[v].kind = "pool"

\* C5: a connection GetTenantConn handed out is its caller's alone until
\* the caller closes it: every statement of any goroutine runs on a
\* connection that goroutine owns or that nobody owns, a holder's connection
\* stays the holder's, and a holder's statements resolve to its own tenant's
\* schema.
C5_HolderOwnsConnExclusively ==
    [][\A v \in Workers :
          /\ (StmtStep(v) /\ wk'[v].exec # NoExec) =>
                conn[wk'[v].exec.c].owner \in {None, v}
          /\ wk'[v].pc \in HoldPcs => conn'[wk'[v].c].owner = v
          /\ (wk'[v].kind = "conn" /\ wk'[v].exec # NoExec) =>
                /\ wk'[v].exec.ns = GetSchemaName(wk'[v].t)
                /\ wk'[v].exec.c = wk'[v].c]_vars

\* Two holders for different tenants at once, both having written and read.
C5_Witness ==
    \E w, v \in Workers :
       /\ wk[w].pc = "hold3" /\ wk[v].pc = "hold3"
       /\ wk[w].t # wk[v].t
       /\ wk[w].seen # {} /\ wk[v].seen # {}

\* C6: nothing a WithTenantTx call did is committed once the call has
\* returned an error: no table holds its row, and no other reader ever saw it.
C6_FailedTxLeavesNothing ==
    /\ \A r \in rows : r[2][2] \notin aborted
    /\ \A w \in Workers : \A tag \in wk[w].seen :
          tag[2] \in aborted => tag[2] = wk[w].id

\* A call whose fn inserted, read back and then failed, after another call
\* of the same tenant had committed.
C6_Witness ==
    \E w \in Workers :
       /\ wk[w].kind = "tx" /\ wk[w].pc = "ret" /\ wk[w].fnErr \in FnErrs
       /\ wk[w].id \in aborted
       /\ \E r \in rows : r[1] = GetSchemaName(wk[w].t)

\* C7: when fn returns an error e, WithTenantTx returns e itself, the
\* transaction is over and rolled back, whatever Rollback returned.
C7_FnErrorReturnedAsIs ==
    \A w \in Workers :
       (wk[w].kind = "tx" /\ wk[w].pc = "ret" /\ wk[w].fnErr # Nil) =>
          /\ wk[w].err = wk[w].fnErr
          /\ ~wk[w].rel.inTx
          /\ \A r \in rows : r[2] # Tag(w)

\* fn failed after the transaction had been rolled back underneath it, so
\* Rollback itself returned an error.
C7_Witness ==
    \E w \in Workers :
       /\ wk[w].kind = "tx" /\ wk[w].pc = "ret"
       /\ wk[w].fnErr # Nil /\ wk[w].rbErr # Nil

\* C8: a connection is checked out only while a call is in flight on it or
\* while a caller owns it through a successful GetTenantConn; a call that
\* has returned an error holds none, and a pooled connection has no
\* transaction open.
C8_NoLeakedConnection ==
    \A c \in Conns :
       /\ conn[c].owner # None =>
            /\ wk[conn[c].owner].c = c
            /\ wk[conn[c].owner].pc \in InFlightPcs
       /\ conn[c].owner = None => ~conn[c].inTx /\ conn[c].pendRows = {}

\* A transaction cancelled midway has returned and its connection is free.
C8_Witness ==
    \E w \in Workers :
       /\ wk[w].kind = "tx" /\ wk[w].pc = "ret" /\ wk[w].cancelled
       /\ Free(wk[w].c)

\* C9 (as claimed): a statement on the handle GetTenantDB(T) returned never
\* resolves to another tenant's schema.
C9_LegacyHandleIsScoped ==
    \A w \in Workers :
       (wk[w].kind = "db" /\ wk[w].exec # NoExec) =>
          wk[w].exec.ns \in {GetSchemaName(wk[w].t), NoNs}

\* C10 (as claimed): when ProvisionTenant calls for the same tenant run
\* concurrently and no driver failure hits either, each returns nil and the
\* tenant's namespace exists with its full table set.
C10_ConcurrentProvisionAllSucceed ==
    \A w, v \in Workers :
       (/\ w # v
        /\ wk[w].kind = "prov" /\ wk[v].kind = "prov"
        /\ wk[w].t = wk[v].t
        /\ wk[w].pc = "ret" /\ wk[v].pc = "ret"
        /\ wk[w].conc
        /\ ~wk[w].fault /\ ~wk[v].fault) =>
          /\ wk[w].err = Nil /\ wk[v].err = Nil
          /\ FullyProvisioned(wk[w].t)

\* C11 (as claimed): CreateTenantSchema for a tenant whose namespace already
\* exists in full returns nil and leaves the namespace as it was.
C11_CreateOnExistingSucceeds ==
    \A w \in Workers :
       (/\ wk[w].kind = "create" /\ wk[w].pc = "ret"
        /\ wk[w].had /\ ~wk[w].fault /\ ~wk[w].conc) =>
          /\ wk[w].err = Nil
          /\ FullyProvisioned(wk[w].t)

\* w, inside CreateTenantSchema, takes a step.
CreateStep(w) ==
    /\ wk[w].kind \in {"create", "prov"}
    /\ wk[w].pc \in ProvPcs \ {"pvExists", "pvUpdate", "pvDrop"}
    /\ wk'[w].pc # wk[w].pc

\* C12: a CreateTenantSchema call that fails, at whatever step, is rolled
\* back as a whole: nothing it did reaches the catalog (no namespace, no
\* table in public or elsewhere), and its connection goes back with no
\* transaction and no uncommitted DDL.
C12_FailedCreateLeavesNothing ==
    [][\A w \in Workers :
          (CreateStep(w) /\ wk'[w].pc = "ret" /\ wk'[w].err # Nil) =>
             /\ schemas' = schemas
             /\ objs' = objs
             /\ wk[w].c # None =>
                  /\ ~conn'[wk[w].c].inTx
                  /\ conn'[wk[w].c].owner = None
                  /\ conn'[wk[w].c].pendSchemas = {}
                  /\ conn'[wk[w].c].pendObjs = {}
             /\ (~wk[w].had /\ ~SchemaExists(wk[w].t)) =>
                  /\ GetSchemaName(wk[w].t) \notin schemas'
                  /\ \A o \in TenantObjects : <<Public, o>> \in objs' => <<Public, o>> \in objs]_vars

\* A call for a tenant without a namespace failed at its commit, after all
\* of its DDL had run.
C12_Witness ==
    \E w \in Workers :
       /\ wk[w].kind = "create" /\ wk[w].pc = "ret" /\ ~wk[w].had
       /\ wk[w].err = Wrap("failed to commit transaction", Err("driver error"))
       /\ ~SchemaExists(wk[w].t)

TwoTenantsProvisioned(w, v) ==
    /\ w # v /\ nops = 2
    /\ wk[w].kind = "prov" /\ wk[v].kind = "prov"
    /\ wk[w].t # wk[v].t

\* C14: ProvisionTenant calls for different tenants, interleaved in any way
\* on the shared pool and hit by no driver failure, all return nil; each
\* tenant then has its own full namespace and is active, and nothing was
\* created in public or in the other tenant's namespace.
C14_DifferentTenantsProvisionSafely ==
    \A w, v \in Workers :
       (TwoTenantsProvisioned(w, v) /\ ~wk[w].fault /\ ~wk[v].fault) =>
          /\ \A o \in objs : o[1] \in {GetSchemaName(wk[w].t), GetSchemaName(wk[v].t)}
          /\ \A c \in Conns : \A o \in conn[c].pendObjs :
                conn[c].owner \in Workers /\ o[1] = GetSchemaName(wk[conn[c].owner].t)
          /\ wk[w].pc = "ret" =>
                /\ wk[w].err = Nil
                /\ FullyProvisioned(wk[w].t)
                /\ status[wk[w].t] = "active"
          /\ (wk[w].pc = "ret" /\ wk[v].pc = "ret") =>
                objs = {<<GetSchemaName(t), o>> : t \in {wk[w].t, wk[v].t}, o \in TenantObjects}

\* Two calls that ran side by side have both returned nil.
C14_Witness ==
    \E w, v \in Workers :
       /\ TwoTenantsProvisioned(w, v)
       /\ wk[w].pc = "ret" /\ wk[v].pc = "ret"
       /\ wk[w].err = Nil /\ wk[v].err = Nil
       /\ wk[w].par

\* No ProvisionTenant call for t is under way, and none has just been broken
\* off by a driver failure.
Settled(t) ==
    \A w \in Workers :
       (wk[w].kind = "prov" /\ wk[w].t = t) => (wk[w].pc = "ret" /\ ~wk[w].fault)

\* C15 (as claimed): a provisioned (active) tenant has its namespace, a
\* tenant not yet provisioned (pending) has none, and a deleted (cancelled)
\* tenant has none.
C15_NamespaceFollowsLifecycle ==
    \A t \in TenantIDs :
       Settled(t) =>
          /\ status[t] = "active" => SchemaExists(t)
          /\ status[t] = "pending" => ~SchemaExists(t)
          /\ status[t] = "cancelled" => ~SchemaExists(t)

\* w's DropTenantSchema call returns nil in this step.
DropReturnsNil(w) ==
    /\ wk[w].pc = "idle"
    /\ wk'[w].kind = "drop" /\ wk'[w].pc = "ret" /\ wk'[w].err = Nil

\* C16: when DropTenantSchema(T) returns nil, T's namespace does not exist,
\* nothing is left in it, and no row that was stored in it is held by any
\* other namespace or visible on any pooled connection, whatever path that
\* connection carries.
C16_DroppedDataIsGone ==
    [][\A w \in Workers :
          DropReturnsNil(w) =>
             /\ GetSchemaName(wk'[w].t) \notin schemas'
             /\ \A o \in objs' : o[1] # GetSchemaName(wk'[w].t)
             /\ \A r \in rows' : r[1] # GetSchemaName(wk'[w].t) /\ r[2][1] # wk'[w].t
             /\ \A c \in Conns : \A tag \in VisibleRows(conn[c])' : tag[1] # wk'[w].t]_vars

\* A namespace that held data was dropped while a pooled connection still
\* carried its path.
C16_Witness ==
    \E w \in Workers :
       /\ wk[w].kind = "drop" /\ wk[w].pc = "ret" /\ wk[w].err = Nil /\ wk[w].had
       /\ ~SchemaExists(wk[w].t)
       /\ \E c \in Conns : conn[c].session = TenantPath(wk[w].t)

\* C17 (as claimed): a namespace leaves the catalog only in a step of an
\* explicit DropTenantSchema call made for it.
C17_OnlyExplicitDropRemovesNamespace ==
    [][\A n \in schemas \ schemas' :
          \E w \in Workers :
             /\ wk[w].pc = "idle"
             /\ wk'[w].kind = "drop" /\ GetSchemaName(wk'[w].t) = n]_vars

\* C18: every call in which a DropTenantSchema failed has returned an error
\* to its caller: the direct call returns the drop's error, ProvisionTenant
\* returns the error of the update that led to the drop.
C18_FailedDropReturnsError ==
    \A w \in Workers :
       (wk[w].dropErr # Nil /\ wk[w].pc = "ret") => wk[w].err # Nil

\* The cleanup drop inside ProvisionTenant failed and left the namespace.
C18_Witness ==
    \E w \in Workers :
       /\ wk[w].kind = "prov" /\ wk[w].pc = "ret" /\ wk[w].dropErr # Nil
       /\ SchemaExists(wk[w].t)

\* Migration (t, v) has been executed k times, and its ledger row is there n
\* times.
ExecutionsOf(t, v) == {a \in applied : a.tenant_id = t /\ a.version = v}
LedgerRowsOf(t, v) == {r \in ledger : r.tenant_id = t /\ r.migration_version = v}

\* u ran the first and w the second of two ApplyMigration calls for the same
\* migration of a tenant whose namespace exists; w started after u had
\* returned, and neither was cancelled or given SQL that fails.
AppliedTwice(u, w) ==
    /\ wk[u].kind = "apply" /\ wk[w].kind = "apply"
    /\ wk[u].pc = "ret" /\ wk[w].pc = "ret"
    /\ wk[u].id = 1 /\ wk[w].id = 2 /\ ~wk[w].par
    /\ wk[u].t = wk[w].t /\ wk[u].v = wk[w].v
    /\ wk[u].had /\ wk[w].had
    /\ ~wk[u].fault /\ ~wk[w].fault

\* C19: applying migration (T, v) twice in sequence to a tenant whose
\* namespace exists returns nil both times, executes the migration's SQL
\* exactly once and leaves exactly one ledger row for (T, v).
C19_ApplyTwiceExecutesOnce ==
    \A u, w \in Workers :
        AppliedTwice(u, w) =>
            /\ wk[u].err = Nil /\ wk[w].err = Nil
            /\ Cardinality(ExecutionsOf(wk[w].t, wk[w].v)) = 1
            /\ Cardinality(LedgerRowsOf(wk[w].t, wk[w].v)) = 1

\* The SQL of migration (t, v) is in effect in the namespace GetSchemaName
\* names for t.
EffectsInNamespace(t, v) ==
    \E a \in ExecutionsOf(t, v) : a.ns = GetSchemaName(t)

\* C20: once an ApplyMigration(T, v) call for a tenant whose namespace exists
\* has returned, with nil, an error or a cancellation, either the migration's
\* SQL is in effect in T's namespace and the ledger holds the (T, v) row, or
\* the SQL is in effect nowhere and the ledger holds no (T, v) row.
C20_ApplyIsAtomic ==
    \A w \in Workers :
        (wk[w].kind = "apply" /\ wk[w].pc = "ret" /\ wk[w].had) =>
            \/ /\ EffectsInNamespace(wk[w].t, wk[w].v)
               /\ LedgerRowsOf(wk[w].t, wk[w].v) # {}
            \/ /\ ExecutionsOf(wk[w].t, wk[w].v) = {}
               /\ LedgerRowsOf(wk[w].t, wk[w].v) = {}

\* C21: an ApplyMigration(T, m) call made while T's namespace does not exist
\* returns an error, and has executed none of the migration's SQL and
\* written no ledger row.
C21_ApplyWithoutNamespaceFails ==
    \A w \in Workers :
        (wk[w].kind = "apply" /\ wk[w].pc = "ret" /\ ~wk[w].had) =>
            /\ wk[w].err # Nil
            /\ \A a \in applied : a.id # wk[w].id
            /\ \A r \in ledger : r.id # wk[w].id

\* The ledger holds migration (t, v) and no rollback SQL for it.
RecordedWithoutRollback(t, v) ==
    /\ LedgerRowsOf(t, v) # {}
    /\ \A r \in LedgerRowsOf(t, v) : r.rollback_sql = NullSQL

\* The step is one of goroutine w's RollbackMigration call.
RollbackStep(w) ==
    /\ wk[w].pc # "ret"
    /\ wk'[w].kind = "rollback"
    /\ wk'[w] # wk[w]

\* C25: RollbackMigration(T, v) for a recorded migration whose ledger row
\* carries no rollback SQL changes nothing, neither the ledger nor anything
\* in a namespace nor a connection's session, and returns an error.
C25_RollbackWithoutSqlFailsCleanly ==
    [][\A w \in Workers :
          (RollbackStep(w) /\ RecordedWithoutRollback(wk'[w].t, wk'[w].v)) =>
              /\ UNCHANGED <<conn, schemas, objs, rows, status, ledger, applied>>
              /\ wk'[w].pc = "ret" => wk'[w].err # Nil]_vars

C25_Witness ==
    \E w \in Workers :
        /\ wk[w].kind = "rollback" /\ wk[w].pc = "ret" /\ ~wk[w].fault
        /\ wk[w].exec.c # None
        /\ wk[w].err = Wrap("rollback failed", <<"No rollback SQL found for migration">>)
        /\ RecordedWithoutRollback(wk[w].t, wk[w].v)

\* C26: once a RollbackMigration(T, v) call for a tenant whose namespace
\* exists has run the recorded rollback SQL and returned nil, that SQL has
\* taken effect in T's namespace, the migration is undone and the (T, v)
\* ledger row is gone.
C26_RollbackScopedAndAtomic ==
    \A w \in Workers :
        (/\ wk[w].kind = "rollback" /\ wk[w].pc = "ret" /\ wk[w].had
         /\ wk[w].err = Nil /\ wk[w].exec.c # None) =>
            /\ wk[w].exec.ns = GetSchemaName(wk[w].t)
            /\ LedgerRowsOf(wk[w].t, wk[w].v) = {}
            /\ ExecutionsOf(wk[w].t, wk[w].v) = {}

\* Goroutine w's ApplyToAllTenants call has returned and was not cancelled.
AllReturned(w) ==
    wk[w].kind = "applyAll" /\ wk[w].pc = "ret" /\ ~wk[w].fault

\* C22: a returned ApplyToAllTenants call has attempted the migration once
\* on each tenant whose status was active when the call read the tenants,
\* and on no other tenant, whether or not an attempt failed.
C22_AllActiveTenantsAttempted ==
    \A w \in Workers :
        AllReturned(w) =>
            /\ Range(wk[w].tried) = wk[w].active
            /\ Len(wk[w].tried) = Cardinality(wk[w].active)

\* The first tenant attempted failed and the second was attempted all the
\* same.
C22_Witness ==
    \E w \in Workers :
        /\ AllReturned(w)
        /\ Len(wk[w].tried) = 2
        /\ wk[w].tried[1] \in wk[w].failed
        /\ wk[w].tried[2] \notin wk[w].failed

\* C23: when ApplyToAllTenants returns an error because some tenant failed,
\* every tenant whose own application succeeded has the migration's SQL
\* executed and its (T, v) row in the ledger.
C23_SucceededTenantsKeepMigration ==
    \A w \in Workers :
        (AllReturned(w) /\ wk[w].err # Nil) =>
            \A t \in Range(wk[w].tried) \ wk[w].failed :
                /\ LedgerRowsOf(t, wk[w].v) # {}
                /\ ExecutionsOf(t, wk[w].v) # {}

\* C24: a returned ApplyToAllTenants call returns an error exactly when the
\* migration failed for at least one of the tenants it attempted.
C24_ErrorIffSomeTenantFailed ==
    \A w \in Workers :
        AllReturned(w) => (wk[w].err # Nil <=> wk[w].failed # {})

\* One call returned nil after applying the migration to a tenant, another
\* returned an error after a tenant failed.
C24_Witness ==
    \E w, u \in Workers :
        /\ AllReturned(w) /\ wk[w].err = Nil /\ wk[w].tried # <<>>
        /\ \E a \in applied : a.id = wk[w].id
        /\ AllReturned(u) /\ wk[u].err # Nil /\ wk[u].failed # {}

\* Goroutine w's RollbackMigration(t, v) call removes rows in this step.
ExplicitRollback(w, t, v) ==
    /\ wk[w].pc = "rbRollback" /\ wk[w].kind = "rollback"
    /\ wk[w].t = t /\ wk[w].v = v
    /\ wk'[w].pc = "ret" /\ wk'[w].err = Nil

\* C27: a recorded (T, v) ledger row stays in the ledger across every step
\* of every operation (applies, ApplyToAllTenants, provisioning, suspension,
\* tenant deletion, namespace drop); the only step that removes it is the
\* one of an explicit RollbackMigration(T, v).
C27_LedgerRowsStayUntilRollback ==
    [][\A r \in ledger :
          r \notin ledger' =>
              \E w \in Workers : ExplicitRollback(w, r.tenant_id, r.migration_version)]_vars

\* A tenant was deleted and its namespace dropped, and its ledger row is
\* still there.
C27_Witness ==
    \E r \in ledger :
        /\ status[r.tenant_id] = "cancelled"
        /\ GetSchemaName(r.tenant_id) \notin schemas
        /\ \E w \in Workers :
             /\ wk[w].kind = "drop" /\ wk[w].pc = "ret" /\ wk[w].t = r.tenant_id
             /\ wk[w].had /\ wk[w].err = Nil

\* C28: GetSchemaName is a function of the tenant ID alone: two calls with
\* the same ID return the same name, and two calls with distinct IDs return
\* distinct names.
C28_SchemaNameInjective ==
    \A w, u \in Workers :
        (/\ wk[w].kind = "name" /\ wk[w].pc = "ret"
         /\ wk[u].kind = "name" /\ wk[u].pc = "ret") =>
            (wk[w].t = wk[u].t <=> wk[w].name = wk[u].name)

\* Two calls for tenant IDs that differ in one byte have returned, and the
\* first returned the name of the format test with the hyphens replaced.
C28_Witness ==
    \E w, u \in Workers :
        /\ wk[w].kind = "name" /\ wk[w].pc = "ret"
        /\ wk[u].kind = "name" /\ wk[u].pc = "ret"
        /\ wk[w].t[4] = 10 /\ wk[u].t[4] = 160 /\ wk[w].t[5] = wk[u].t[5]
        /\ Len(wk[w].name) = 37
        /\ SubSeq(wk[w].name, 1, 15) =
               <<"tenant_", "0", "0", "0", "0", "0", "0", "0", "a", "_",
                 "0", "0", "0", "0", "_">>

\* Goroutine w takes this step, as part of a call of this kind.
Acting(w) == wk'[w] # wk[w]
CallKind(w) == IF wk[w].kind # None THEN wk[w].kind ELSE wk'[w].kind

\* The step changes the search path in force on connection c, or runs a
\* session-level SET on it.
PathChanged(c) ==
    \/ conn'[c].session # conn[c].session
    \/ conn'[c].txLocal # conn[c].txLocal
    \/ conn'[c].setBy # conn[c].setBy

\* The call's log holds the deprecation message at warning level.
Warned(w) ==
    \E i \in 1..Len(wk[w].log) :
        wk[w].log[i].level = "warn" /\ wk[w].log[i].msg = Deprecation

\* C29: every GetTenantDB call logs the deprecation warning; a GetTenantConn
\* or WithTenantTx call never logs it, and changes the search path only of
\* the connection it has checked out and holds; a path set on a connection
\* that no call holds is set by GetTenantDB.
C29_LegacyPathOnlyDeprecated ==
    [][/\ \A w \in Workers :
            /\ wk'[w].kind = "db" => Warned(w)'
            /\ wk'[w].kind \in {"tx", "conn"} => ~Warned(w)'
       /\ \A c \in Conns :
            PathChanged(c) =>
                \E w \in Workers :
                    /\ Acting(w)
                    /\ \/ /\ CallKind(w) \in {"tx", "conn"}
                          /\ conn[c].owner = w /\ wk[w].c = c
                          /\ conn'[c].setBy # "GetTenantDB" \/ conn[c].setBy = "GetTenantDB"
                       \/ /\ CallKind(w) = "db"
                          /\ conn[c].owner = None /\ conn'[c].owner = None
                          /\ conn'[c].setBy = "GetTenantDB"]_vars

\* A GetTenantDB call has logged its warning and left its path on a pooled
\* connection that no one holds, while a GetTenantConn caller holds the
\* connection whose path that call set.
C29_Witness ==
    \E w, u \in Workers :
        /\ wk[w].kind = "db" /\ wk[w].err = Nil /\ Warned(w)
        /\ wk[u].kind = "conn" /\ wk[u].pc \in HoldPcs /\ ~Warned(u)
        /\ conn[wk[u].c].setBy = "GetTenantConn"
        /\ \E c \in Conns : conn[c].owner = None /\ conn[c].setBy = "GetTenantDB"

C40_RollbackOfUnappliedFails ==
    [][\A w \in Workers :
          (/\ wk[w].pc = "idle" /\ wk'[w].kind = "rollback"
           /\ LedgerRowsOf(wk'[w].t, wk'[w].v) = {}) =>
              /\ wk'[w].pc = "ret" /\ wk'[w].err # Nil
              /\ UNCHANGED <<conn, schemas, objs, rows, status, ledger, applied>>]_vars

\* C38: the namespace that a successful apply_tenant_migration or
\* rollback_tenant_migration call for tenant T scoped its SQL to is the
\* namespace GetSchemaName(T) names and CreateTenantSchema(T) creates.
C38_MigrationsUseSchemaName ==
    \A w \in Workers :
        (/\ wk[w].kind \in {"apply", "rollback"} /\ wk[w].pc = "ret"
         /\ wk[w].err = Nil /\ wk[w].exec.c # None) =>
            /\ wk[w].exec.path # NoPath
            /\ Head(wk[w].exec.path) = GetSchemaName(wk[w].t)

\* C39: whenever the ledger holds a row for (T, v), T's namespace exists and
\* holds the effects of migration v.
C39_LedgerRowMeansEffectsPresent ==
    \A r \in ledger :
        /\ GetSchemaName(r.tenant_id) \in schemas
        /\ \E a \in applied :
             /\ a.tenant_id = r.tenant_id /\ a.version = r.migration_version
             /\ a.ns = GetSchemaName(r.tenant_id)

\* C37: of two concurrent ApplyMigration calls for the same (T, v) of a
\* tenant whose namespace exists, neither cancelled, where one has applied
\* the migration: both return nil, the
\* migration's SQL is committed exactly once and the ledger holds exactly
\* one (T, v) row.
C37_ConcurrentApplyIdempotent ==
    \A u, w \in Workers :
        (/\ u # w
         /\ wk[u].kind = "apply" /\ wk[w].kind = "apply"
         /\ wk[u].pc = "ret" /\ wk[w].pc = "ret"
         /\ wk[u].t = wk[w].t /\ wk[u].v = wk[w].v
         /\ wk[w].par /\ wk[u].had /\ wk[w].had
         /\ ~wk[u].fault /\ ~wk[w].fault
         /\ \E a \in applied : a.id = wk[u].id) =>
            /\ wk[u].err = Nil /\ wk[w].err = Nil
            /\ Cardinality(ExecutionsOf(wk[w].t, wk[w].v)) = 1
            /\ Cardinality(LedgerRowsOf(wk[w].t, wk[w].v)) = 1

\* C36: when a CreateTenantSchema(T) call returns, by commit or by rollback,
\* the pooled connection it used, which did not have T's namespace in its
\* search path when the call took it, does not have it afterwards.
C36_CreateLeavesNoSessionState ==
    [][\A w \in Workers :
          (/\ wk[w].kind = "create" /\ wk[w].c # None /\ wk[w].pre = DefaultPath
           /\ wk[w].pc # "ret" /\ wk'[w].pc = "ret") =>
              LET path == EffPath(conn'[wk[w].c])
              IN  \A i \in 1..Len(path) : path[i] # GetSchemaName(wk[w].t)]_vars

\* C33: at the moment a ProvisionTenant(T) call returns nil, T's namespace
\* exists and T's status is active.
C33_ProvisionSuccessMeansActive ==
    [][\A w \in Workers :
          (/\ wk[w].kind = "prov" /\ wk[w].pc # "ret"
           /\ wk'[w].pc = "ret" /\ wk'[w].err = Nil) =>
              /\ GetSchemaName(wk[w].t) \in schemas'
              /\ status'[wk[w].t] = "active"]_vars

\* C34: at the moment a ProvisionTenant(T) call returns an error, T is not
\* provisioned: no namespace of T is left and T's status is not active.
\* Stated for a call that is the only one made so far.
C34_ProvisionErrorLeavesNothing ==
    [][\A w \in Workers :
          (/\ wk[w].kind = "prov" /\ wk[w].pc # "ret" /\ nops = 1
           /\ wk'[w].pc = "ret" /\ wk'[w].err # Nil) =>
              /\ GetSchemaName(wk[w].t) \notin schemas'
              /\ status'[wk[w].t] # "active"]_vars

\* C35: in every state a tenant whose status is active has an existing
\* namespace.
C35_ActiveTenantHasNamespace ==
    \A t \in TenantIDs :
        status[t] = "active" => GetSchemaName(t) \in schemas

\* The rules of a tenant key: 3 to 50 characters, each a lowercase letter, a
\* digit or a hyphen, no hyphen first or last, and not a reserved word of
\* the configuration.
WellFormedKey(cfg, key) ==
    /\ Len(key) >= 3
    /\ Len(key) <= 50
    /\ \A i \in 1..Len(key) : key[i] \in LowerLetters \cup Digits \cup {"-"}
    /\ key[1] # "-"
    /\ key[Len(key)] # "-"
    /\ key \notin cfg.ReservedSubdomain

\* C31: under every strategy a key handed to the lookup satisfies every rule
\* of a tenant key, and a call that ends without a lookup ends with an error.
C31_OnlyValidKeysAreLookedUp ==
    \A w \in Workers :
        wk[w].kind = "resolve" =>
            /\ (wk[w].pc = "rtLookup" \/ wk[w].looked) =>
                   WellFormedKey(wk[w].cfg, wk[w].subdomain)
            /\ (wk[w].pc = "ret" /\ ~wk[w].looked) => wk[w].err # Nil

\* A key of the greatest length, with an inner hyphen, was looked up under
\* the header strategy of a configuration that reserves words.
C31_Witness ==
    \E w \in Workers :
        /\ wk[w].kind = "resolve"
        /\ wk[w].looked
        /\ wk[w].cfg.Strategy = "header"
        /\ wk[w].cfg.ReservedSubdomain # {}
        /\ Len(wk[w].subdomain) = MaxSubdomainLen
        /\ \E i \in 1..Len(wk[w].subdomain) : wk[w].subdomain[i] = "-"

\* What a caller can test of an error without reading its text: the dynamic
\* type of each error of the chain.  errors.New and fmt.Errorf without %w
\* give an *errors.errorString, fmt.Errorf with %w a *fmt.wrapError; the
\* resolver uses no sentinel value and no TenantError code.
ErrKind(e) ==
    [i \in 1..Len(e) |-> IF i < Len(e) THEN "*fmt.wrapError" ELSE "*errors.errorString"]

\* C32: the error of a call that failed at extraction or validation is of
\* another kind than the error of a lookup miss.
C32_MalformedAndUnknownDiffer ==
    \A w \in Workers :
        (/\ wk[w].kind = "resolve"
         /\ wk[w].pc = "ret"
         /\ wk[w].cfg.Strategy \in Strategies
         /\ ~wk[w].looked)
            => ErrKind(wk[w].err) # ErrKind(TenantNotFound)

====
